---- MODULE Spec2Model ----
(***************************************************************************)
(* A model of generateResources.py, the TerraFirmaCraft resource           *)
(* generator: the null-pruning helper del_none, the emission primitives    *)
(* blockstate / cube_all / model / item, and the module-level script       *)
(* (archival step, blockstate loops, item loops).                          *)
(*                                                                         *)
(* Python values are tagged records, so that values of different Python    *)
(* types can be compared:                                                  *)
(*   None        [t |-> "null"]                                            *)
(*   str         [t |-> "str",  s |-> "..."]                               *)
(*   int         [t |-> "num",  n |-> 90]                                  *)
(*   float       [t |-> "float", repr |-> "-0.1875"]                       *)
(*   dict        [t |-> "dict", d |-> function from keys to values]        *)
(*   list        [t |-> "list", l |-> sequence of values]                  *)
(*   tuple       [t |-> "tuple", l |-> sequence of strings]                *)
(* A dict whose iteration order the code depends on (the textures argument *)
(* of blockstate) is a sequence of [key, val] records in insertion order.  *)
(* Python strings are TLA+ strings; \o, Len and SubSeq act on them as +,   *)
(* len and slicing do.                                                     *)
(*                                                                         *)
(* Five specifications share the variables:                                *)
(*   SpecPrune  one call of del_none on a bounded mapping;                 *)
(*   SpecEmit   one call of an emission primitive, with arguments of       *)
(*              bounded sets or with the arguments of a call of the script;*)
(*   Spec       one run of the script, filesystem errors included, over    *)
(*              the first MaxRows rows of each enumeration table;          *)
(*   SpecFull   the emission calls of one run over the whole tables, in an *)
(*              empty tree, without filesystem errors;                     *)
(*   SpecMetal  one iteration of the metal item loops, for any pair of the *)
(*              whole METAL_ITEMS and METAL_TYPES.                         *)
(***************************************************************************)
EXTENDS Integers, Sequences, FiniteSets, Bags, TLC

VARIABLES
    arg,        \* del_none: the mapping passed in
    ret,        \* del_none: the mapping returned ("unset" before the call)
    dirs,       \* the directories below the working directory
    files,      \* the files below the working directory: path -> content
    call,       \* the emission call made last, with its arguments
    pc,         \* the script: the statement it is at
    calls,      \* the script: the calls of the loops it is in, as the tables stand
    row,        \* the script: the iteration of the outer loop it is in
    idx,        \* the script: the position in calls
    tables,     \* the script: the enumeration tables
    steel,      \* the script: the order in which STEEL iterates, once it has
    backupsDir, \* does the directory assets_backups exist
    backups,    \* the files in assets_backups: path -> content
    treeDir,    \* does the output tree src/main/resources/assets/tfc exist
    zip_name,   \* zipfolder: the archive being written
    todo,       \* zipfolder: the files os.walk has yet to yield
    files0,     \* history: the files of the output tree when the run started
    failed,     \* history: the filesystem operations of the run that failed
    archived,   \* history: has zipfolder returned
    nBlock,     \* history: the number of blockstate files written
    nItem       \* history: the number of model files written

pruneVars == <<arg, ret>>
emitVars == <<dirs, files, call>>
runVars == <<pc, calls, row, idx, tables, steel, backupsDir, backups, treeDir, zip_name, todo,
             files0, failed, archived, nBlock, nItem>>
vars == <<pruneVars, emitVars, runVars>>

----------------------------------------------------------------------------
(* Python values *)

Null == [t |-> "null"]
Str(s) == [t |-> "str", s |-> s]
Num(n) == [t |-> "num", n |-> n]
Dict(f) == [t |-> "dict", d |-> f]
Float(r) == [t |-> "float", repr |-> r]
List(l) == [t |-> "list", l |-> l]
Tuple(l) == [t |-> "tuple", l |-> l]
Unset == [t |-> "unset"]
\* An argument the caller leaves out, so that the parameter's default applies.
Omitted == [t |-> "omitted"]
Default(a, dflt) == IF a = Omitted THEN dflt ELSE a

\* The script is not running.
NoRun ==
    /\ pc = "none" /\ calls = <<>> /\ row = 0 /\ idx = 0 /\ tables = Unset /\ steel = Unset
    /\ backupsDir = FALSE /\ backups = <<>> /\ treeDir = TRUE
    /\ zip_name = Unset /\ todo = {} /\ files0 = <<>>
    /\ failed = {} /\ archived = FALSE /\ nBlock = 0 /\ nItem = 0

EmptyDict == Dict(<<>>)

----------------------------------------------------------------------------
(* del_none, lines 383-393 *)

\* A del_none that prunes the top level only (no recursion into mappings).
del_none_shallow(d) ==
    Dict([key \in {k \in DOMAIN d.d : d.d[k] # Null} |-> d.d[key]])

RECURSIVE del_none(_)
del_none(d) ==
    Dict([key \in {k \in DOMAIN d.d : d.d[k] # Null} |->
            IF d.d[key].t = "dict" THEN del_none(d.d[key]) ELSE d.d[key]])

----------------------------------------------------------------------------
(* Bounded input mappings for del_none *)

MaxDepth == 2

PruneKeys == {"a", "b"}
PruneLeaves == {Null, Str("v"), List(<<Null>>)}

RECURSIVE Mappings(_)
Mappings(n) ==
    IF n = 0 THEN {EmptyDict}
    ELSE LET vals == PruneLeaves \cup Mappings(n - 1)
         IN  UNION {{Dict(f) : f \in [ks -> vals]} : ks \in SUBSET PruneKeys}

\* The mappings of depth at most MaxDepth, built level by level.
PruneInit ==
    /\ \E ks \in SUBSET PruneKeys :
         \E f \in [ks -> PruneLeaves \cup Mappings(MaxDepth - 1)] : arg = Dict(f)
    /\ ret = Unset
    /\ dirs = {} /\ files = <<>> /\ call = Unset
    /\ NoRun

CallDelNone ==
    /\ ret = Unset
    /\ ret' = del_none(arg)
    /\ UNCHANGED <<arg, emitVars, runVars>>

PruneNext == CallDelNone

SpecPrune == PruneInit /\ [][PruneNext]_vars

----------------------------------------------------------------------------
(* C1 *)

\* No key at any depth of the mapping tree of v has the null value.
RECURSIVE NullFree(_)
NullFree(v) ==
    v.t = "dict" =>
        \A k \in DOMAIN v.d : v.d[k] # Null /\ NullFree(v.d[k])

\* The key/value pairs of the mapping tree of v whose value is not null, each
\* as <<path of keys, value>>; a mapping value is recorded as a "mapping" marker (its
\* own pairs follow under the longer paths).
RECURSIVE Pairs(_, _)
Pairs(v, prefix) ==
    UNION {
        LET w == v.d[k]
            p == Append(prefix, k)
        IN  IF w = Null THEN {}
            ELSE IF w.t = "dict" THEN {<<p, [t |-> "mapping"]>>} \cup Pairs(w, p)
            ELSE {<<p, w>>}
        : k \in DOMAIN v.d }

\* C1: del_none(d) has no null-valued key at any depth of its mapping tree,
\* keeps every key/value pair of d whose value is not null, and returns a
\* mapping without null values unchanged.
C1_DelNonePrunes ==
    ret # Unset =>
        /\ NullFree(ret)
        /\ Pairs(arg, <<>>) \subseteq Pairs(ret, <<>>)
        /\ (NullFree(arg) => ret = arg)

\* del_none has run on a mapping with a null two levels down and a non-null
\* value next to it.
C1_Witness ==
    /\ ret # Unset
    /\ \E k1, k2, k3 \in PruneKeys :
        /\ k1 \in DOMAIN arg.d /\ arg.d[k1].t = "dict"
        /\ k2 \in DOMAIN arg.d[k1].d /\ arg.d[k1].d[k2] = Null
        /\ k3 \in DOMAIN arg.d[k1].d /\ arg.d[k1].d[k3] = Str("v")

----------------------------------------------------------------------------
(* Paths: os.path.join, os.path.dirname and os.makedirs as the emission    *)
(* primitives use them (POSIX rules)                                       *)

CharAt(s, i) == SubSeq(s, i, i)

JoinStep(path, b) ==
    IF Len(b) > 0 /\ CharAt(b, 1) = "/" THEN b
    ELSE IF path = "" \/ CharAt(path, Len(path)) = "/" THEN path \o b
    ELSE path \o "/" \o b

\* os.path.join(first, *rest)
RECURSIVE os_path_join(_, _)
os_path_join(first, rest) ==
    IF Len(rest) = 0 THEN first
    ELSE os_path_join(JoinStep(first, Head(rest)), Tail(rest))

\* The positions of the separators of a path.
Slashes(p) == {i \in 1..Len(p) : CharAt(p, i) = "/"}

Max(S) == CHOOSE x \in S : \A y \in S : y <= x

RECURSIVE rstrip_slash(_)
rstrip_slash(s) ==
    IF Len(s) > 0 /\ CharAt(s, Len(s)) = "/"
    THEN rstrip_slash(SubSeq(s, 1, Len(s) - 1))
    ELSE s

\* os.path.dirname(p)
os_path_dirname(p) ==
    LET i == IF Slashes(p) = {} THEN 0 ELSE Max(Slashes(p))
        head == SubSeq(p, 1, i)
    IN  IF rstrip_slash(head) = "" THEN head ELSE rstrip_slash(head)

\* The directories os.makedirs(d, exist_ok=True) leaves in place: d and every
\* ancestor of d.
makedirs(d) ==
    {SubSeq(d, 1, i - 1) : i \in {j \in Slashes(d) : j > 1}} \cup {d}

----------------------------------------------------------------------------
(* The emission primitives, lines 396-449.  Each gives the path it opens    *)
(* and the object it hands to json.dump.                                   *)

\* d[k] = v on a dict held as a function
Assign(f, k, v) == (k :> v) @@ f

\* a.update(b)
Update(a, b) == [x \in DOMAIN a \cup DOMAIN b |-> IF x \in DOMAIN b THEN b[x] ELSE a[x]]

\* The truth value Python gives an Optional[dict] argument.
Truthy(v) == v # Null /\ ~(v.t = "dict" /\ DOMAIN v.d = {})

\* Lines 404-408 with assignment in place of update: the caller's table
\* replaces the default table.
merge_variants_replace(variants) ==
    IF Truthy(variants) THEN variants.d ELSE ("normal" :> List(<<EmptyDict>>))

\* Lines 404-408 with a bare {} as the default 'normal' entry.
merge_variants_bare_default(variants) ==
    LET _variants == ("normal" :> EmptyDict)
    IN  IF Truthy(variants) THEN Update(_variants, variants.d) ELSE _variants

\* Lines 404-408 with an update that skips the caller's None entries.
merge_variants_skip_none(variants) ==
    LET _variants == ("normal" :> List(<<EmptyDict>>))
    IN  IF Truthy(variants)
        THEN Update(_variants, [k \in {x \in DOMAIN variants.d : variants.d[x] # Null}
                                  |-> variants.d[k]])
        ELSE _variants

\* Lines 404-408: _variants = {'normal': [{}]}, updated with the caller's.
merge_variants(variants) ==
    LET _variants == ("normal" :> List(<<EmptyDict>>))
    IN  IF Truthy(variants) THEN Update(_variants, variants.d) ELSE _variants

\* Lines 416-417: for x in key: _textures[x] = val
RECURSIVE assign_each(_, _, _)
assign_each(acc, names, val) ==
    IF Len(names) = 0 THEN acc
    ELSE assign_each(Assign(acc, Head(names), val), Tail(names), val)

\* Lines 412-417 without the isinstance(key, str) test: a str key is
\* iterated like a tuple, character by character.
unpack_key_chars(acc, entry) ==
    LET items == IF entry.key.t = "str"
                 THEN [i \in 1..Len(entry.key.s) |-> CharAt(entry.key.s, i)]
                 ELSE entry.key.l
    IN  assign_each(acc, items, entry.val)

\* Lines 412-417, one iteration of the loop over textures.items().
unpack_key(acc, entry) ==
    IF entry.key.t = "str"
    THEN Assign(acc, entry.key.s, entry.val)
    ELSE assign_each(acc, entry.key.l, entry.val)

\* Lines 410-417: unpack any tuple keys to simple string->string pairs.
RECURSIVE unpack_from(_, _)
unpack_from(_textures, items) ==
    IF Len(items) = 0 THEN _textures
    ELSE unpack_from(unpack_key(_textures, Head(items)), Tail(items))

unpack_textures(textures) == unpack_from(<<>>, textures)

BlockstateComment == Str("Generated by generateResources.py function: blockstate")
ModelComment == Str("Generated by generateResources.py function: model")

\* Lines 422-430 without the provenance key.
blockstate_object_unmarked(model_ref, _textures, _variants) ==
    del_none(Dict(
        "forge_marker" :> Num(1)
        @@ "defaults" :> Dict("model" :> model_ref @@ "textures" :> Dict(_textures))
        @@ "variants" :> Dict(_variants)))

\* Lines 422-430 without the call of del_none.
blockstate_object_unpruned(model_ref, _textures, _variants) ==
    Dict(
        "__comment" :> BlockstateComment
        @@ "forge_marker" :> Num(1)
        @@ "defaults" :> Dict("model" :> model_ref @@ "textures" :> Dict(_textures))
        @@ "variants" :> Dict(_variants))

\* Lines 422-430: the object written by blockstate.
blockstate_object(model_ref, _textures, _variants) ==
    del_none(Dict(
        "__comment" :> BlockstateComment
        @@ "forge_marker" :> Num(1)
        @@ "defaults" :> Dict("model" :> model_ref @@ "textures" :> Dict(_textures))
        @@ "variants" :> Dict(_variants)))

\* blockstate(filename_parts, model, textures, variants=None), lines 396-430
blockstate(filename_parts, model_ref, textures, variants) ==
    LET p == os_path_join("blockstates", filename_parts) \o ".json"
    IN  [p |-> p,
         dir |-> os_path_dirname(p),
         obj |-> blockstate_object(model_ref, unpack_textures(textures),
                                   merge_variants(Default(variants, Null)))]

\* cube_all(filename_parts, texture, variants=None, model='cube_all'), lines 433-434
cube_all(filename_parts, texture, variants, model_ref) ==
    blockstate(filename_parts, Default(model_ref, Str("cube_all")),
               <<[key |-> Str("all"), val |-> texture]>>, Default(variants, Null))

\* model(filename_parts, parent, textures), lines 437-445
model(filename_parts, parent, textures) ==
    LET p == os_path_join("models", filename_parts) \o ".json"
    IN  [p |-> p,
         dir |-> os_path_dirname(p),
         obj |-> del_none(Dict(
                    "__comment" :> ModelComment
                    @@ "parent" :> parent
                    @@ "textures" :> textures))]

\* Line 449 with the layers numbered from 1.
layer_textures_from_one(layers) ==
    IF Len(layers) = 0 THEN Null
    ELSE Dict([k \in {"layer" \o ToString(i) : i \in 1..Len(layers)} |->
                 layers[CHOOSE i \in 1..Len(layers) : k = "layer" \o ToString(i)]])

\* Line 449: None if len(layers) == 0 else {'layer%d' % i: v for i, v in enumerate(layers)}
layer_textures(layers) ==
    IF Len(layers) = 0 THEN Null
    ELSE Dict([k \in {"layer" \o ToString(i - 1) : i \in 1..Len(layers)} |->
                 layers[CHOOSE i \in 1..Len(layers) : k = "layer" \o ToString(i - 1)]])

\* item(filename_parts, *layers, parent='item/generated'), lines 448-449
item(filename_parts, layers, parent) ==
    model(<<"item">> \o filename_parts, Default(parent, Str("item/generated")),
          layer_textures(layers))

----------------------------------------------------------------------------
(* One call of an emission primitive on arguments drawn from bounded sets  *)

MaxTexKeys == 2
MaxLayers == 2

\* Content of a file this program did not write.
Raw(s) == [t |-> "raw", s |-> s]

EmitParts == {<<"a">>, <<"d", "a">>}
ModelRefs == {Null, Str("m")}
TexVals == {Str("t1"), Str("t2")}
TexKeys == {Str("particle"), Str("top"),
            Tuple(<<"all", "particle">>), Tuple(<<"top", "bottom", "side">>)}

\* The textures mappings of at most n keys, in every insertion order.
RECURSIVE TextureArgs(_)
TextureArgs(n) ==
    IF n = 0 THEN {<<>>}
    ELSE LET shorter == TextureArgs(n - 1)
         IN  shorter \cup
             {Append(t, [key |-> k, val |-> v]) :
                t \in {u \in shorter : Len(u) = n - 1},
                k \in TexKeys, v \in TexVals}

DistinctKeys(t) == \A i, j \in 1..Len(t) : i # j => t[i].key # t[j].key

VariantKeys == {"normal", "north", "__comment"}
VariantVals == {Null,
                EmptyDict,
                List(<<EmptyDict>>),
                Dict("model" :> Str("stairs") @@ "y" :> Num(90)),
                Dict("true" :> Dict("submodel" :> Str("fence_side") @@ "__comment" :> Null)
                     @@ "false" :> EmptyDict)}

ModelTextures == {Null, EmptyDict, Dict("layer0" :> Str("t1")),
                  Dict("layer0" :> Null @@ "__comment" :> Str("t2"))}
ModelParents == {Str("item/generated"), Str("block/cube"), Null}
ItemParents == {Omitted, Str("item/handheld"), Null}

\* The variants arguments: left out, None, or a table over VariantKeys.
VariantArgs(ks) == {Omitted, Null} \cup {Dict(f) : f \in [ks -> VariantVals]}

\* The layer lists of at most n layers.
RECURSIVE LayerArgs(_)
LayerArgs(n) ==
    IF n = 0 THEN {<<>>}
    ELSE LET shorter == LayerArgs(n - 1)
         IN  shorter \cup
             {Append(l, v) : l \in {u \in shorter : Len(u) = n - 1}, v \in TexVals}

\* The candidate output paths, for the files found there before the call.
EmitPaths ==
    {os_path_join(root, parts) \o ".json" :
        root \in {"blockstates", "models"}, parts \in EmitParts \cup {<<"item">> \o q : q \in EmitParts}}

EmitInit ==
    /\ arg = EmptyDict /\ ret = Unset
    /\ call = Unset
    /\ NoRun
    /\ \/ dirs = {} /\ files = <<>>
       \/ /\ dirs = UNION {makedirs(os_path_dirname(p)) : p \in EmitPaths}
          /\ files = [p \in EmitPaths |-> Raw("old")]

\* open(p, 'w') after os.makedirs(os.path.dirname(p), exist_ok=True), and
\* json.dump of the object into it.
Emit(r) ==
    /\ dirs' = dirs \cup makedirs(r.dir)
    /\ files' = Assign(files, r.p, r.obj)

CallBlockstate ==
    /\ call = Unset
    /\ \E filename_parts \in EmitParts, model_ref \in ModelRefs,
          textures \in {t \in TextureArgs(MaxTexKeys) : DistinctKeys(t)} :
        \E ks \in SUBSET VariantKeys : \E vt \in VariantArgs(ks) :
            LET r == blockstate(filename_parts, model_ref, textures, vt)
            IN  /\ Emit(r)
                /\ call' = [fn |-> "blockstate", filename_parts |-> filename_parts,
                            model |-> model_ref, textures |-> textures,
                            variants |-> vt, p |-> r.p]
    /\ UNCHANGED <<pruneVars, runVars>>

CallCubeAll ==
    /\ call = Unset
    /\ \E filename_parts \in EmitParts, texture \in TexVals,
          model_ref \in {Omitted, Str("leaves")} :
        \E ks \in SUBSET VariantKeys : \E vt \in VariantArgs(ks) :
            LET r == cube_all(filename_parts, texture, vt, model_ref)
            IN  /\ Emit(r)
                /\ call' = [fn |-> "cube_all", filename_parts |-> filename_parts,
                            model |-> model_ref, texture |-> texture,
                            variants |-> vt, p |-> r.p]
    /\ UNCHANGED <<pruneVars, runVars>>

CallModel ==
    /\ call = Unset
    /\ \E filename_parts \in EmitParts, parent \in ModelParents, textures \in ModelTextures :
            LET r == model(filename_parts, parent, textures)
            IN  /\ Emit(r)
                /\ call' = [fn |-> "model", filename_parts |-> filename_parts,
                            parent |-> parent, textures |-> textures, p |-> r.p]
    /\ UNCHANGED <<pruneVars, runVars>>

CallItem ==
    /\ call = Unset
    /\ \E filename_parts \in EmitParts, parent \in ItemParents,
          layers \in LayerArgs(MaxLayers) :
            LET r == item(filename_parts, layers, parent)
            IN  /\ Emit(r)
                /\ call' = [fn |-> "item", filename_parts |-> filename_parts,
                            parent |-> parent, layers |-> layers, p |-> r.p]
    /\ UNCHANGED <<pruneVars, runVars>>


----------------------------------------------------------------------------
(* C2 - C7: one emission call *)

IsBlockCall == call # Unset /\ call.fn \in {"blockstate", "cube_all"}

\* The object in the file the call wrote.
Written == files[call.p]
WrittenVariants == Written.d["variants"]
WrittenTextures == Written.d["defaults"].d["textures"]

\* C2 as stated: with no variant table the written "variants" is
\* {"normal": {}}.
C2_DefaultVariantIsEmptyObject ==
    (IsBlockCall /\ call.variants \in {Omitted, Null}) =>
        WrittenVariants = Dict("normal" :> EmptyDict)

\* C2, amended: with no variant table (omitted or None) the written "variants"
\* has exactly one entry, keyed "normal", whose value is a list holding one
\* empty override object: {"normal": [{}]}.
C2_DefaultVariantIsListOfEmptyObject ==
    (IsBlockCall /\ call.variants \in {Omitted, Null}) =>
        /\ DOMAIN WrittenVariants.d = {"normal"}
        /\ WrittenVariants.d["normal"] = List(<<EmptyDict>>)

\* Both blockstate and cube_all are called without a variant table.
C2_Witness ==
    /\ IsBlockCall /\ call.fn = "cube_all" /\ call.variants = Omitted
    /\ call.p \in DOMAIN files /\ Written.t = "dict"

\* A caller's entry as null-pruning leaves it.
PrunedEntry(v) == IF v.t = "dict" THEN del_none(v) ELSE v

\* C3 as stated: an explicit variant table replaces the default: the written
\* "variants" holds exactly the caller's non-null entries, null-pruned.
C3_TableReplacesDefault ==
    (IsBlockCall /\ call.variants \notin {Omitted, Null}) =>
        LET t == call.variants.d
            kept == {k \in DOMAIN t : t[k] # Null}
        IN  /\ DOMAIN WrittenVariants.d = kept
            /\ \A k \in kept : WrittenVariants.d[k] = PrunedEntry(t[k])

\* C3, amended: an explicit, non-empty variant table is merged over the
\* default: the written "variants" holds the caller's non-null entries,
\* null-pruned, and also the default "normal": [{}] whenever the caller's
\* table has no "normal" key; an empty table leaves the default alone.
C3_TableMergedOverDefault ==
    (IsBlockCall /\ call.variants \notin {Omitted, Null}) =>
        LET t == call.variants.d
            kept == {k \in DOMAIN t : t[k] # Null}
        IN  /\ DOMAIN WrittenVariants.d =
                    kept \cup (IF "normal" \in DOMAIN t THEN {} ELSE {"normal"})
            /\ \A k \in kept : WrittenVariants.d[k] = PrunedEntry(t[k])
            /\ "normal" \notin DOMAIN t =>
                    WrittenVariants.d["normal"] = List(<<EmptyDict>>)

\* blockstate is called with a table that has entries and no "normal" key.
C3_Witness ==
    /\ IsBlockCall /\ call.fn = "blockstate"
    /\ call.variants \notin {Omitted, Null}
    /\ DOMAIN call.variants.d = {"north"}
    /\ call.variants.d["north"] # Null
    /\ "north" \in DOMAIN WrittenVariants.d

\* The slot names a texture key stands for.
Slots(key) == IF key.t = "str" THEN {key.s} ELSE {key.l[i] : i \in 1..Len(key.l)}

\* The position of the last key of the mapping that names the slot.
LastNaming(textures, slot) ==
    Max({i \in 1..Len(textures) : slot \in Slots(textures[i].key)})

\* C5: the written defaults.textures has one entry per slot name that occurs
\* in a key of the textures mapping (a str key being one slot name, a group
\* key one per member) and no other entry; each slot maps to the value of the
\* last key, in the mapping's order, that names it.  So a group of N distinct
\* names with value V gives N entries mapped to V unless a later key names
\* one of them again.
C5_TextureKeysExpanded ==
    (call # Unset /\ call.fn = "blockstate") =>
        LET t == call.textures
            slots == UNION {Slots(t[i].key) : i \in 1..Len(t)}
        IN  /\ DOMAIN WrittenTextures.d = slots
            /\ \A slot \in slots :
                 WrittenTextures.d[slot] = t[LastNaming(t, slot)].val

\* The grass shape: a group key naming 'particle' and a later 'particle' key
\* with another value.
C5_Witness ==
    /\ call # Unset /\ call.fn = "blockstate"
    /\ Len(call.textures) = 2
    /\ call.textures[1] = [key |-> Tuple(<<"all", "particle">>), val |-> Str("t1")]
    /\ call.textures[2] = [key |-> Str("particle"), val |-> Str("t2")]
    /\ DOMAIN WrittenTextures.d = {"all", "particle"}

\* "layer0", "layer1", ... as the claim spells them.
LayerKey == <<"layer0", "layer1", "layer2", "layer3", "layer4">>

RECURSIVE Slashed(_)
Slashed(parts) ==
    IF Len(parts) = 1 THEN parts[1] ELSE parts[1] \o "/" \o Slashed(Tail(parts))

\* C6: item writes models/item/<naming path>.json; with no layers the model
\* has no "textures" field, with N layers "textures" has exactly the entries
\* layer0 .. layer{N-1}, the i-th naming the i-th layer; "parent" is
\* "item/generated" unless the caller gives one.
C6_ItemLayers ==
    (call # Unset /\ call.fn = "item") =>
        LET n == Len(call.layers)
        IN  /\ call.p = "models/item/" \o Slashed(call.filename_parts) \o ".json"
            /\ call.p \in DOMAIN files
            /\ n = 0 => "textures" \notin DOMAIN Written.d
            /\ n >= 1 =>
                /\ "textures" \in DOMAIN Written.d
                /\ DOMAIN Written.d["textures"].d = {LayerKey[i] : i \in 1..n}
                /\ \A i \in 1..n : Written.d["textures"].d[LayerKey[i]] = call.layers[i]
            /\ call.parent = Omitted => Written.d["parent"] = Str("item/generated")
            /\ call.parent \notin {Omitted, Null} => Written.d["parent"] = call.parent

\* item is called with two different layers and no parent.
C6_Witness ==
    /\ call # Unset /\ call.fn = "item"
    /\ call.layers = <<Str("t2"), Str("t1")>>
    /\ call.parent = Omitted
    /\ call.filename_parts = <<"d", "a">>
    /\ "models/item/d/a.json" \in DOMAIN files

\* C7: the file an emission call has written has a root object with the
\* "__comment" key, whose value is the fixed text naming the generator,
\* whatever the arguments were.
C7_ProvenanceMarker ==
    call # Unset =>
        /\ call.p \in DOMAIN files
        /\ Written.t = "dict"
        /\ "__comment" \in DOMAIN Written.d
        /\ Written.d["__comment"] =
             IF call.fn \in {"blockstate", "cube_all"}
             THEN Str("Generated by generateResources.py function: blockstate")
             ELSE Str("Generated by generateResources.py function: model")

\* blockstate is called with no model and a variant table that has a null
\* "__comment" key at a nested depth and a "__comment" key of its own.
C7_Witness ==
    /\ call # Unset /\ call.fn = "blockstate"
    /\ call.model = Null
    /\ call.variants \notin {Omitted, Null}
    /\ "__comment" \in DOMAIN call.variants.d
    /\ call.variants.d["__comment"].t = "dict"
    /\ "true" \in DOMAIN call.variants.d["__comment"].d
    /\ "__comment" \in DOMAIN call.variants.d["__comment"].d["true"].d
    /\ call.p \in DOMAIN files

----------------------------------------------------------------------------
(* The enumeration tables, lines 42-380.  A list is a sequence; a dict the  *)
(* script iterates over is a sequence of [k, v] records in insertion order; *)
(* STEEL is a set; the variant tables are dict values.                      *)

\* ROCK_TYPES, lines 42-64
ROCK_TYPES ==
    <<"granite", "diorite", "gabbro", "shale", "claystone", "rocksalt",
     "limestone", "conglomerate", "dolomite", "chert", "chalk", "rhyolite",
     "basalt", "andesite", "dacite", "quartzite", "slate", "phyllite",
     "schist", "gneiss", "marble">>

\* ROCK_CATEGORIES, lines 65-70
ROCK_CATEGORIES ==
    <<"sedimentary", "metamorphic", "igneous_intrusive", "igneous_extrusive">>

\* FULLBLOCK_TYPES, lines 71-80
FULLBLOCK_TYPES ==
    <<"raw", "smooth", "cobble", "bricks", "sand", "gravel", "dirt", "clay">>

\* GRASS_TYPES, lines 81-84
GRASS_TYPES ==
    <<"grass", "dry_grass">>

\* ORE_TYPES, lines 85-121
ORE_TYPES ==
    <<[k |-> "native_copper", v |-> TRUE],
      [k |-> "native_gold", v |-> TRUE],
      [k |-> "native_platinum", v |-> TRUE],
      [k |-> "hematite", v |-> TRUE],
      [k |-> "native_silver", v |-> TRUE],
      [k |-> "cassiterite", v |-> TRUE],
      [k |-> "galena", v |-> TRUE],
      [k |-> "bismuthinite", v |-> TRUE],
      [k |-> "garnierite", v |-> TRUE],
      [k |-> "malachite", v |-> TRUE],
      [k |-> "magnetite", v |-> TRUE],
      [k |-> "limonite", v |-> TRUE],
      [k |-> "sphalerite", v |-> TRUE],
      [k |-> "tetrahedrite", v |-> TRUE],
      [k |-> "bituminous_coal", v |-> FALSE],
      [k |-> "lignite", v |-> FALSE],
      [k |-> "kaolinite", v |-> FALSE],
      [k |-> "gypsum", v |-> FALSE],
      [k |-> "satinspar", v |-> FALSE],
      [k |-> "selenite", v |-> FALSE],
      [k |-> "graphite", v |-> FALSE],
      [k |-> "kimberlite", v |-> FALSE],
      [k |-> "petrified_wood", v |-> FALSE],
      [k |-> "sulfur", v |-> FALSE],
      [k |-> "jet", v |-> FALSE],
      [k |-> "microcline", v |-> FALSE],
      [k |-> "pitchblende", v |-> FALSE],
      [k |-> "cinnabar", v |-> FALSE],
      [k |-> "cryolite", v |-> FALSE],
      [k |-> "saltpeter", v |-> FALSE],
      [k |-> "serpentine", v |-> FALSE],
      [k |-> "sylvite", v |-> FALSE],
      [k |-> "borax", v |-> FALSE],
      [k |-> "olivine", v |-> FALSE],
      [k |-> "lapis_lazuli", v |-> FALSE]>>

\* POWDERS, lines 122-135
POWDERS ==
    <<"flux", "coke", "kaolinite_powder", "graphite_powder", "sulfur_powder",
     "saltpeter_powder", "hematite_powder", "lapis_lazuli_powder",
     "limonite_powder", "malachite_powder", "salt", "fertilizer">>

\* WOOD_TYPES, lines 136-156
WOOD_TYPES ==
    <<"ash", "aspen", "birch", "chestnut", "douglas_fir", "hickory", "maple",
     "oak", "pine", "sequoia", "spruce", "sycamore", "white_cedar", "willow",
     "kapok", "acacia", "rosewood", "blackwood", "palm">>

\* GEM_TYPES, lines 157-171
GEM_TYPES ==
    <<"agate", "amethyst", "beryl", "diamond", "emerald", "garnet", "jade",
     "jasper", "opal", "ruby", "sapphire", "topaz", "tourmaline">>

\* GEM_GRADES, lines 172-178
GEM_GRADES ==
    <<"normal", "flawed", "flawless", "chipped", "exquisite">>

\* METAL_TYPES, lines 179-201
METAL_TYPES ==
    <<[k |-> "bismuth", v |-> FALSE],
      [k |-> "bismuth_bronze", v |-> TRUE],
      [k |-> "black_bronze", v |-> TRUE],
      [k |-> "brass", v |-> FALSE],
      [k |-> "bronze", v |-> TRUE],
      [k |-> "copper", v |-> TRUE],
      [k |-> "gold", v |-> FALSE],
      [k |-> "lead", v |-> FALSE],
      [k |-> "nickel", v |-> FALSE],
      [k |-> "rose_gold", v |-> FALSE],
      [k |-> "silver", v |-> FALSE],
      [k |-> "tin", v |-> FALSE],
      [k |-> "zinc", v |-> FALSE],
      [k |-> "sterling_silver", v |-> FALSE],
      [k |-> "wrought_iron", v |-> TRUE],
      [k |-> "pig_iron", v |-> FALSE],
      [k |-> "steel", v |-> TRUE],
      [k |-> "platinum", v |-> FALSE],
      [k |-> "black_steel", v |-> TRUE],
      [k |-> "blue_steel", v |-> TRUE],
      [k |-> "red_steel", v |-> TRUE]>>

\* METAL_ITEMS, lines 202-248
METAL_ITEMS ==
    <<[k |-> "ingot", v |-> FALSE],
      [k |-> "double_ingot", v |-> FALSE],
      [k |-> "scrap", v |-> FALSE],
      [k |-> "dust", v |-> FALSE],
      [k |-> "nugget", v |-> FALSE],
      [k |-> "sheet", v |-> FALSE],
      [k |-> "double_sheet", v |-> FALSE],
      [k |-> "anvil", v |-> TRUE],
      [k |-> "tuyere", v |-> TRUE],
      [k |-> "lamp", v |-> FALSE],
      [k |-> "pick", v |-> TRUE],
      [k |-> "pick_head", v |-> TRUE],
      [k |-> "shovel", v |-> TRUE],
      [k |-> "shovel_head", v |-> TRUE],
      [k |-> "axe", v |-> TRUE],
      [k |-> "axe_head", v |-> TRUE],
      [k |-> "hoe", v |-> TRUE],
      [k |-> "hoe_head", v |-> TRUE],
      [k |-> "chisel", v |-> TRUE],
      [k |-> "chisel_head", v |-> TRUE],
      [k |-> "sword", v |-> TRUE],
      [k |-> "sword_blade", v |-> TRUE],
      [k |-> "mace", v |-> TRUE],
      [k |-> "mace_head", v |-> TRUE],
      [k |-> "saw", v |-> TRUE],
      [k |-> "saw_blade", v |-> TRUE],
      [k |-> "javelin", v |-> TRUE],
      [k |-> "javelin_head", v |-> TRUE],
      [k |-> "hammer", v |-> TRUE],
      [k |-> "hammer_head", v |-> TRUE],
      [k |-> "propick", v |-> TRUE],
      [k |-> "propick_head", v |-> TRUE],
      [k |-> "knife", v |-> TRUE],
      [k |-> "knife_blade", v |-> TRUE],
      [k |-> "scythe", v |-> TRUE],
      [k |-> "scythe_blade", v |-> TRUE],
      [k |-> "unfinished_chestplate", v |-> TRUE],
      [k |-> "chestplate", v |-> TRUE],
      [k |-> "unfinished_greaves", v |-> TRUE],
      [k |-> "greaves", v |-> TRUE],
      [k |-> "unfinished_boots", v |-> TRUE],
      [k |-> "boots", v |-> TRUE],
      [k |-> "unfinished_helmet", v |-> TRUE],
      [k |-> "helmet", v |-> TRUE]>>

\* STEEL, lines 249-254
STEEL ==
    {"steel", "blue_steel", "red_steel", "black_steel"}

\* TOOLS, lines 255-257
TOOLS ==
    <<"pick", "propick", "shovel", "axe", "hoe", "chisel", "sword", "mace",
     "saw", "javelin", "hammer", "knife", "scythe">>

\* FLUIDS, lines 258-281
FLUIDS ==
    <<[k |-> "salt_water", v |-> "salt_water"],
      [k |-> "fresh_water", v |-> "fresh_water"],
      [k |-> "hot_water", v |-> "hot_water"],
      [k |-> "finite_salt_water", v |-> "salt_water"],
      [k |-> "finite_fresh_water", v |-> "fresh_water"],
      [k |-> "finite_hot_water", v |-> "hot_water"],
      [k |-> "rum", v |-> "rum"],
      [k |-> "beer", v |-> "beer"],
      [k |-> "whiskey", v |-> "whiskey"],
      [k |-> "rye_whiskey", v |-> "rye_whiskey"],
      [k |-> "corn_whiskey", v |-> "corn_whiskey"],
      [k |-> "sake", v |-> "sake"],
      [k |-> "vodka", v |-> "vodka"],
      [k |-> "cider", v |-> "cider"],
      [k |-> "vinegar", v |-> "vinegar"],
      [k |-> "brine", v |-> "brine"],
      [k |-> "milk", v |-> "milk"],
      [k |-> "olive_oil", v |-> "olive_oil"],
      [k |-> "tannin", v |-> "tannin"],
      [k |-> "limewater", v |-> "limewater"],
      [k |-> "milk_curdled", v |-> "milk_curdled"],
      [k |-> "milk_vinegar", v |-> "milk_vinegar"]>>

\* DOOR_VARIANTS, lines 284-318
DOOR_VARIANTS ==
    Dict(
    "normal" :> Null
    @@ "facing=east,half=lower,hinge=left,open=false" :> Dict("model" :> Str("door_bottom"))
    @@ "facing=south,half=lower,hinge=left,open=false" :> Dict("model" :> Str("door_bottom") @@ "y" :> Num(90))
    @@ "facing=west,half=lower,hinge=left,open=false" :> Dict("model" :> Str("door_bottom") @@ "y" :> Num(180))
    @@ "facing=north,half=lower,hinge=left,open=false" :> Dict("model" :> Str("door_bottom") @@ "y" :> Num(270))
    @@ "facing=east,half=lower,hinge=right,open=false" :> Dict("model" :> Str("door_bottom_rh"))
    @@ "facing=south,half=lower,hinge=right,open=false" :> Dict("model" :> Str("door_bottom_rh") @@ "y" :> Num(90))
    @@ "facing=west,half=lower,hinge=right,open=false" :> Dict("model" :> Str("door_bottom_rh") @@ "y" :> Num(180))
    @@ "facing=north,half=lower,hinge=right,open=false" :> Dict("model" :> Str("door_bottom_rh") @@ "y" :> Num(270))
    @@ "facing=east,half=lower,hinge=left,open=true" :> Dict("model" :> Str("door_bottom_rh") @@ "y" :> Num(90))
    @@ "facing=south,half=lower,hinge=left,open=true" :> Dict("model" :> Str("door_bottom_rh") @@ "y" :> Num(180))
    @@ "facing=west,half=lower,hinge=left,open=true" :> Dict("model" :> Str("door_bottom_rh") @@ "y" :> Num(270))
    @@ "facing=north,half=lower,hinge=left,open=true" :> Dict("model" :> Str("door_bottom_rh"))
    @@ "facing=east,half=lower,hinge=right,open=true" :> Dict("model" :> Str("door_bottom") @@ "y" :> Num(270))
    @@ "facing=south,half=lower,hinge=right,open=true" :> Dict("model" :> Str("door_bottom"))
    @@ "facing=west,half=lower,hinge=right,open=true" :> Dict("model" :> Str("door_bottom") @@ "y" :> Num(90))
    @@ "facing=north,half=lower,hinge=right,open=true" :> Dict("model" :> Str("door_bottom") @@ "y" :> Num(180))
    @@ "facing=east,half=upper,hinge=left,open=false" :> Dict("model" :> Str("door_top"))
    @@ "facing=south,half=upper,hinge=left,open=false" :> Dict("model" :> Str("door_top") @@ "y" :> Num(90))
    @@ "facing=west,half=upper,hinge=left,open=false" :> Dict("model" :> Str("door_top") @@ "y" :> Num(180))
    @@ "facing=north,half=upper,hinge=left,open=false" :> Dict("model" :> Str("door_top") @@ "y" :> Num(270))
    @@ "facing=east,half=upper,hinge=right,open=false" :> Dict("model" :> Str("door_top_rh"))
    @@ "facing=south,half=upper,hinge=right,open=false" :> Dict("model" :> Str("door_top_rh") @@ "y" :> Num(90))
    @@ "facing=west,half=upper,hinge=right,open=false" :> Dict("model" :> Str("door_top_rh") @@ "y" :> Num(180))
    @@ "facing=north,half=upper,hinge=right,open=false" :> Dict("model" :> Str("door_top_rh") @@ "y" :> Num(270))
    @@ "facing=east,half=upper,hinge=left,open=true" :> Dict("model" :> Str("door_top_rh") @@ "y" :> Num(90))
    @@ "facing=south,half=upper,hinge=left,open=true" :> Dict("model" :> Str("door_top_rh") @@ "y" :> Num(180))
    @@ "facing=west,half=upper,hinge=left,open=true" :> Dict("model" :> Str("door_top_rh") @@ "y" :> Num(270))
    @@ "facing=north,half=upper,hinge=left,open=true" :> Dict("model" :> Str("door_top_rh"))
    @@ "facing=east,half=upper,hinge=right,open=true" :> Dict("model" :> Str("door_top") @@ "y" :> Num(270))
    @@ "facing=south,half=upper,hinge=right,open=true" :> Dict("model" :> Str("door_top"))
    @@ "facing=west,half=upper,hinge=right,open=true" :> Dict("model" :> Str("door_top") @@ "y" :> Num(90))
    @@ "facing=north,half=upper,hinge=right,open=true" :> Dict("model" :> Str("door_top") @@ "y" :> Num(180)))

\* TRAPDOOR_VARIANTS, lines 319-337
TRAPDOOR_VARIANTS ==
    Dict(
    "normal" :> Null
    @@ "facing=north,half=bottom,open=false" :> Dict("model" :> Str("trapdoor_bottom"))
    @@ "facing=south,half=bottom,open=false" :> Dict("model" :> Str("trapdoor_bottom"))
    @@ "facing=east,half=bottom,open=false" :> Dict("model" :> Str("trapdoor_bottom"))
    @@ "facing=west,half=bottom,open=false" :> Dict("model" :> Str("trapdoor_bottom"))
    @@ "facing=north,half=top,open=false" :> Dict("model" :> Str("trapdoor_top"))
    @@ "facing=south,half=top,open=false" :> Dict("model" :> Str("trapdoor_top"))
    @@ "facing=east,half=top,open=false" :> Dict("model" :> Str("trapdoor_top"))
    @@ "facing=west,half=top,open=false" :> Dict("model" :> Str("trapdoor_top"))
    @@ "facing=north,half=bottom,open=true" :> Dict("model" :> Str("trapdoor_open"))
    @@ "facing=south,half=bottom,open=true" :> Dict("model" :> Str("trapdoor_open") @@ "y" :> Num(180))
    @@ "facing=east,half=bottom,open=true" :> Dict("model" :> Str("trapdoor_open") @@ "y" :> Num(90))
    @@ "facing=west,half=bottom,open=true" :> Dict("model" :> Str("trapdoor_open") @@ "y" :> Num(270))
    @@ "facing=north,half=top,open=true" :> Dict("model" :> Str("trapdoor_open"))
    @@ "facing=south,half=top,open=true" :> Dict("model" :> Str("trapdoor_open") @@ "y" :> Num(180))
    @@ "facing=east,half=top,open=true" :> Dict("model" :> Str("trapdoor_open") @@ "y" :> Num(90))
    @@ "facing=west,half=top,open=true" :> Dict("model" :> Str("trapdoor_open") @@ "y" :> Num(270)))

\* STAIR_VARIANTS, lines 338-380
STAIR_VARIANTS ==
    Dict(
    "normal" :> Dict("model" :> Str("stairs"))
    @@ "facing=east,half=bottom,shape=straight" :> Dict("model" :> Str("stairs"))
    @@ "facing=west,half=bottom,shape=straight" :> Dict("model" :> Str("stairs") @@ "y" :> Num(180))
    @@ "facing=south,half=bottom,shape=straight" :> Dict("model" :> Str("stairs") @@ "y" :> Num(90))
    @@ "facing=north,half=bottom,shape=straight" :> Dict("model" :> Str("stairs") @@ "y" :> Num(270))
    @@ "facing=east,half=bottom,shape=outer_right" :> Dict("model" :> Str("outer_stairs"))
    @@ "facing=west,half=bottom,shape=outer_right" :> Dict("model" :> Str("outer_stairs") @@ "y" :> Num(180))
    @@ "facing=south,half=bottom,shape=outer_right" :> Dict("model" :> Str("outer_stairs") @@ "y" :> Num(90))
    @@ "facing=north,half=bottom,shape=outer_right" :> Dict("model" :> Str("outer_stairs") @@ "y" :> Num(270))
    @@ "facing=east,half=bottom,shape=outer_left" :> Dict("model" :> Str("outer_stairs") @@ "y" :> Num(270))
    @@ "facing=west,half=bottom,shape=outer_left" :> Dict("model" :> Str("outer_stairs") @@ "y" :> Num(90))
    @@ "facing=south,half=bottom,shape=outer_left" :> Dict("model" :> Str("outer_stairs"))
    @@ "facing=north,half=bottom,shape=outer_left" :> Dict("model" :> Str("outer_stairs") @@ "y" :> Num(180))
    @@ "facing=east,half=bottom,shape=inner_right" :> Dict("model" :> Str("inner_stairs"))
    @@ "facing=west,half=bottom,shape=inner_right" :> Dict("model" :> Str("inner_stairs") @@ "y" :> Num(180))
    @@ "facing=south,half=bottom,shape=inner_right" :> Dict("model" :> Str("inner_stairs") @@ "y" :> Num(90))
    @@ "facing=north,half=bottom,shape=inner_right" :> Dict("model" :> Str("inner_stairs") @@ "y" :> Num(270))
    @@ "facing=east,half=bottom,shape=inner_left" :> Dict("model" :> Str("inner_stairs") @@ "y" :> Num(270))
    @@ "facing=west,half=bottom,shape=inner_left" :> Dict("model" :> Str("inner_stairs") @@ "y" :> Num(90))
    @@ "facing=south,half=bottom,shape=inner_left" :> Dict("model" :> Str("inner_stairs"))
    @@ "facing=north,half=bottom,shape=inner_left" :> Dict("model" :> Str("inner_stairs") @@ "y" :> Num(180))
    @@ "facing=east,half=top,shape=straight" :> Dict("model" :> Str("stairs") @@ "x" :> Num(180))
    @@ "facing=west,half=top,shape=straight" :> Dict("model" :> Str("stairs") @@ "x" :> Num(180) @@ "y" :> Num(180))
    @@ "facing=south,half=top,shape=straight" :> Dict("model" :> Str("stairs") @@ "x" :> Num(180) @@ "y" :> Num(90))
    @@ "facing=north,half=top,shape=straight" :> Dict("model" :> Str("stairs") @@ "x" :> Num(180) @@ "y" :> Num(270))
    @@ "facing=east,half=top,shape=outer_right" :> Dict("model" :> Str("outer_stairs") @@ "x" :> Num(180) @@ "y" :> Num(90))
    @@ "facing=west,half=top,shape=outer_right" :> Dict("model" :> Str("outer_stairs") @@ "x" :> Num(180) @@ "y" :> Num(270))
    @@ "facing=south,half=top,shape=outer_right" :> Dict("model" :> Str("outer_stairs") @@ "x" :> Num(180) @@ "y" :> Num(180))
    @@ "facing=north,half=top,shape=outer_right" :> Dict("model" :> Str("outer_stairs") @@ "x" :> Num(180))
    @@ "facing=east,half=top,shape=outer_left" :> Dict("model" :> Str("outer_stairs") @@ "x" :> Num(180))
    @@ "facing=west,half=top,shape=outer_left" :> Dict("model" :> Str("outer_stairs") @@ "x" :> Num(180) @@ "y" :> Num(180))
    @@ "facing=south,half=top,shape=outer_left" :> Dict("model" :> Str("outer_stairs") @@ "x" :> Num(180) @@ "y" :> Num(90))
    @@ "facing=north,half=top,shape=outer_left" :> Dict("model" :> Str("outer_stairs") @@ "x" :> Num(180) @@ "y" :> Num(270))
    @@ "facing=east,half=top,shape=inner_right" :> Dict("model" :> Str("inner_stairs") @@ "x" :> Num(180) @@ "y" :> Num(90))
    @@ "facing=west,half=top,shape=inner_right" :> Dict("model" :> Str("inner_stairs") @@ "x" :> Num(180) @@ "y" :> Num(270))
    @@ "facing=south,half=top,shape=inner_right" :> Dict("model" :> Str("inner_stairs") @@ "x" :> Num(180) @@ "y" :> Num(180))
    @@ "facing=north,half=top,shape=inner_right" :> Dict("model" :> Str("inner_stairs") @@ "x" :> Num(180))
    @@ "facing=east,half=top,shape=inner_left" :> Dict("model" :> Str("inner_stairs") @@ "x" :> Num(180))
    @@ "facing=west,half=top,shape=inner_left" :> Dict("model" :> Str("inner_stairs") @@ "x" :> Num(180) @@ "y" :> Num(180))
    @@ "facing=south,half=top,shape=inner_left" :> Dict("model" :> Str("inner_stairs") @@ "x" :> Num(180) @@ "y" :> Num(90))
    @@ "facing=north,half=top,shape=inner_left" :> Dict("model" :> Str("inner_stairs") @@ "x" :> Num(180) @@ "y" :> Num(270)))

----------------------------------------------------------------------------
(* The emission calls of the script, in program order.  A call is a record *)
(* of the function called and the arguments given to it.                   *)

BlockstateCall(filename_parts, model_ref, textures, variants) ==
    [fn |-> "blockstate", filename_parts |-> filename_parts, model |-> model_ref,
     textures |-> textures, variants |-> variants]

CubeAllCall(filename_parts, texture, variants, model_ref) ==
    [fn |-> "cube_all", filename_parts |-> filename_parts, model |-> model_ref,
     texture |-> texture, variants |-> variants]

ItemCall(filename_parts, layers, parent) ==
    [fn |-> "item", filename_parts |-> filename_parts, parent |-> parent,
     layers |-> layers]

\* One key: value pair of a textures dict literal.
Tex(key, val) == [key |-> key, val |-> Str(val)]

\* The calls of a loop, one sequence of calls per iteration.
RECURSIVE Flatten(_)
Flatten(seqs) == IF Len(seqs) = 0 THEN <<>> ELSE Head(seqs) \o Flatten(Tail(seqs))

\* x in seq
InList(x, seq) == \E i \in 1..Len(seq) : seq[i] = x

Sides == <<"north", "south", "east", "west">>

\* The grass and clay grass variants, lines 492-497 and 504-509
GrassVariants(top) ==
    Dict([side \in {Sides[i] : i \in 1..Len(Sides)} |->
            Dict("true" :> Dict("textures" :> Dict(side :> Str(top)))
                 @@ "false" :> EmptyDict)])

\* FLUIDS, lines 462-470
FluidBlocks(T) ==
    [i \in 1..Len(T.FLUIDS) |->
        BlockstateCall(<<"fluid", T.FLUIDS[i].k>>, Str("forge:fluid"), <<>>,
            Dict("normal" :> Dict("transform" :> Str("forge:default-item")
                                  @@ "custom" :> Dict("fluid" :> Str(T.FLUIDS[i].v)))))]

\* FULL BLOCKS, lines 475-476
FullBlocks(T, rock_type) ==
    [i \in 1..Len(T.FULLBLOCK_TYPES) |->
        LET block_type == T.FULLBLOCK_TYPES[i]
        IN  CubeAllCall(<<block_type, rock_type>>,
                Str("tfc:blocks/stonetypes/" \o block_type \o "/" \o rock_type),
                Omitted, Omitted)]

\* ORES, lines 479-483
OreBlocks(T, rock_type) ==
    [i \in 1..Len(T.ORE_TYPES) |->
        LET block_type == T.ORE_TYPES[i].k
        IN  BlockstateCall(<<"ore", block_type, rock_type>>, Str("tfc:ore"),
                <<Tex(Tuple(<<"all", "particle">>), "tfc:blocks/stonetypes/raw/" \o rock_type),
                  Tex(Str("overlay"), "tfc:blocks/ores/" \o block_type)>>,
                Omitted)]

\* GRASS, lines 486-497
GrassBlocks(T, rock_type) ==
    [i \in 1..Len(T.GRASS_TYPES) |->
        LET block_type == T.GRASS_TYPES[i]
        IN  BlockstateCall(<<block_type, rock_type>>, Str("tfc:grass"),
                <<Tex(Tuple(<<"all", "particle">>), "tfc:blocks/stonetypes/dirt/" \o rock_type),
                  Tex(Str("particle"), "tfc:blocks/stonetypes/dirt/" \o rock_type),
                  Tex(Str("top"), "tfc:blocks/" \o block_type \o "_top"),
                  Tex(Tuple(Sides), "tfc:blocks/" \o block_type \o "_side")>>,
                GrassVariants("tfc:blocks/" \o block_type \o "_top"))]

\* Lines 500-509 with 'clay' as the block type of the file name.
ClayGrassBlock_at_clay(rock_type) ==
    BlockstateCall(<<"clay", rock_type>>, Str("tfc:grass"),
        <<Tex(Tuple(<<"all", "particle">>), "tfc:blocks/stonetypes/clay/" \o rock_type),
          Tex(Str("top"), "tfc:blocks/grass_top"),
          Tex(Tuple(Sides), "tfc:blocks/grass_side")>>,
        GrassVariants("tfc:blocks/grass_top"))

\* CLAY GRASS, lines 500-509
ClayGrassBlock(rock_type) ==
    BlockstateCall(<<"clay_grass", rock_type>>, Str("tfc:grass"),
        <<Tex(Tuple(<<"all", "particle">>), "tfc:blocks/stonetypes/clay/" \o rock_type),
          Tex(Str("top"), "tfc:blocks/grass_top"),
          Tex(Tuple(Sides), "tfc:blocks/grass_side")>>,
        GrassVariants("tfc:blocks/grass_top"))

\* The wall variants, lines 515-523
WallVariants ==
    Dict("normal" :> Null
         @@ "inventory" :> Dict("model" :> Str("wall_inventory"))
         @@ "north" :> Dict("true" :> Dict("submodel" :> Str("wall_side"))
                            @@ "false" :> EmptyDict)
         @@ "east" :> Dict("true" :> Dict("submodel" :> Str("wall_side") @@ "y" :> Num(90))
                           @@ "false" :> EmptyDict)
         @@ "south" :> Dict("true" :> Dict("submodel" :> Str("wall_side") @@ "y" :> Num(180))
                            @@ "false" :> EmptyDict)
         @@ "west" :> Dict("true" :> Dict("submodel" :> Str("wall_side") @@ "y" :> Num(270))
                           @@ "false" :> EmptyDict)
         @@ "up" :> Dict("true" :> Dict("submodel" :> Str("wall_post") @@ "y" :> Num(270))
                         @@ "false" :> EmptyDict))

\* WALLS (cobble & bricks only), lines 512-523
WallBlocks(rock_type) ==
    LET types == <<"cobble", "bricks">>
    IN  [i \in 1..Len(types) |->
            BlockstateCall(<<"wall", types[i], rock_type>>, Str("tfc:empty"),
                <<Tex(Tuple(<<"wall", "particle">>),
                      "tfc:blocks/stonetypes/" \o types[i] \o "/" \o rock_type)>>,
                WallVariants)]

\* The half slab variants, lines 532-537 and 637-642
HalfSlabVariants ==
    Dict("half" :> Dict("bottom" :> EmptyDict
                        @@ "top" :> Dict("model" :> Str("upper_slab"))))

\* (ROCK) STAIRS & SLABS, lines 526-538
RockStairsAndSlabs(T, rock_type) ==
    LET types == <<"smooth", "cobble", "bricks">>
    IN  Flatten([i \in 1..Len(types) |->
            LET block_type == types[i]
                texture == "tfc:blocks/stonetypes/" \o block_type \o "/" \o rock_type
            IN  <<BlockstateCall(<<"stairs", block_type, rock_type>>, Null,
                      <<Tex(Tuple(<<"top", "bottom", "side">>), texture)>>,
                      T.STAIR_VARIANTS),
                  BlockstateCall(<<"slab", "half", block_type, rock_type>>, Str("half_slab"),
                      <<Tex(Tuple(<<"top", "bottom", "side">>), texture)>>,
                      HalfSlabVariants),
                  CubeAllCall(<<"slab", "full", block_type, rock_type>>, Str(texture),
                      Omitted, Omitted)>>])

\* The button variants, lines 543-559 and 663-679
ButtonVariants ==
    Dict("powered" :> Dict("false" :> EmptyDict
                           @@ "true" :> Dict("model" :> Str("button_pressed")))
         @@ "facing" :> Dict("up" :> EmptyDict
                             @@ "down" :> Dict("x" :> Num(180))
                             @@ "east" :> Dict("x" :> Num(90) @@ "y" :> Num(90))
                             @@ "west" :> Dict("x" :> Num(90) @@ "y" :> Num(270))
                             @@ "south" :> Dict("x" :> Num(90) @@ "y" :> Num(180))
                             @@ "north" :> Dict("x" :> Num(90)))
         @@ "inventory" :> List(<<Dict("model" :> Str("button_inventory"))>>))

\* Lines 541-559 with the rock type left out of the file name.
StoneButton_unnamed(rock_type) ==
    BlockstateCall(<<"stone", "button">>, Str("button"),
        <<Tex(Tuple(<<"texture", "particle">>), "tfc:blocks/stonetypes/raw/" \o rock_type)>>,
        ButtonVariants)

\* (STONE) BUTTON, lines 541-559
StoneButton(rock_type) ==
    BlockstateCall(<<"stone", "button", rock_type>>, Str("button"),
        <<Tex(Tuple(<<"texture", "particle">>), "tfc:blocks/stonetypes/raw/" \o rock_type)>>,
        ButtonVariants)

\* ROCK STUFF, one iteration of the loop of lines 473-559
RockBlocks(T, rock_type) ==
    FullBlocks(T, rock_type) \o OreBlocks(T, rock_type) \o GrassBlocks(T, rock_type)
    \o <<ClayGrassBlock(rock_type)>> \o WallBlocks(rock_type)
    \o RockStairsAndSlabs(T, rock_type) \o <<StoneButton(rock_type)>>

\* WOOD STUFF, one iteration of the loop of lines 563-693
WoodBlocks(T, wood_type) ==
    LET planks == "tfc:blocks/wood/planks/" \o wood_type
    IN
    << \* LOG BLOCKS, lines 565-582
       BlockstateCall(<<"wood", "log", wood_type>>, Str("cube_column"),
            <<Tex(Tuple(<<"particle", "side">>), "tfc:blocks/wood/log/" \o wood_type),
              Tex(Str("end"), "tfc:blocks/wood/top/" \o wood_type),
              Tex(Str("layer0"), "tfc:items/wood/log/" \o wood_type)>>,
            Dict("axis" :> Dict("y" :> EmptyDict
                                @@ "z" :> Dict("x" :> Num(90))
                                @@ "x" :> Dict("x" :> Num(90) @@ "y" :> Num(90))
                                @@ "none" :> Dict("textures" :>
                                    Dict("end" :> Str("tfc:blocks/wood/log/" \o wood_type))))
                 @@ "small" :> Dict("true" :> Dict("model" :> Str("tfc:small_log"))
                                    @@ "false" :> EmptyDict))),
       \* PLANKS BLOCKS, line 585
       CubeAllCall(<<"wood", "planks", wood_type>>, Str(planks), Omitted, Omitted),
       \* LEAVES BLOCKS, line 587
       CubeAllCall(<<"wood", "leaves", wood_type>>,
            Str("tfc:blocks/wood/leaves/" \o wood_type), Omitted, Str("leaves")),
       \* FENCES, lines 590-598
       BlockstateCall(<<"wood", "fence", wood_type>>, Str("fence_post"),
            <<Tex(Str("texture"), planks)>>,
            Dict("inventory" :> Dict("model" :> Str("fence_inventory"))
                 @@ "north" :> Dict("true" :> Dict("submodel" :> Str("fence_side"))
                                    @@ "false" :> EmptyDict)
                 @@ "east" :> Dict("true" :> Dict("submodel" :> Str("fence_side")
                                                  @@ "y" :> Num(90))
                                   @@ "false" :> EmptyDict)
                 @@ "south" :> Dict("true" :> Dict("submodel" :> Str("fence_side")
                                                   @@ "y" :> Num(180))
                                    @@ "false" :> EmptyDict)
                 @@ "west" :> Dict("true" :> Dict("submodel" :> Str("fence_side")
                                                  @@ "y" :> Num(270))
                                   @@ "false" :> EmptyDict))),
       \* FENCE GATES, lines 601-613
       BlockstateCall(<<"wood", "fence_gate", wood_type>>, Str("fence_gate_closed"),
            <<Tex(Str("texture"), planks)>>,
            Dict("inventory" :> List(<<EmptyDict>>)
                 @@ "facing" :> Dict("south" :> EmptyDict
                                     @@ "west" :> Dict("y" :> Num(90))
                                     @@ "north" :> Dict("y" :> Num(180))
                                     @@ "east" :> Dict("y" :> Num(270)))
                 @@ "open" :> Dict("true" :> Dict("model" :> Str("fence_gate_open"))
                                   @@ "false" :> EmptyDict)
                 @@ "in_wall" :> Dict("true" :> Dict("transform" :> Dict("translation" :>
                                          List(<<Num(0), Float("-0.1875"), Num(0)>>)))
                                      @@ "false" :> EmptyDict))),
       \* SAPLINGS, lines 616-623
       BlockstateCall(<<"wood", "sapling", wood_type>>, Str("cross"),
            <<Tex(Tuple(<<"cross", "layer0">>), "tfc:blocks/saplings/" \o wood_type)>>,
            Dict("inventory" :> Dict("model" :> Str("builtin/generated")
                                     @@ "transform" :> Str("forge:default-item")))),
       \* DOORS, lines 626-629
       BlockstateCall(<<"wood", "door", wood_type>>, Null,
            <<Tex(Str("bottom"), "tfc:blocks/wood/door/lower/" \o wood_type),
              Tex(Str("top"), "tfc:blocks/wood/door/upper/" \o wood_type)>>,
            T.DOOR_VARIANTS),
       \* (WOOD) STAIRS & SLABS, lines 632-643
       BlockstateCall(<<"stairs", "wood", wood_type>>, Null,
            <<Tex(Tuple(<<"top", "bottom", "side">>), planks)>>,
            T.STAIR_VARIANTS),
       BlockstateCall(<<"slab", "half", "wood", wood_type>>, Str("half_slab"),
            <<Tex(Tuple(<<"top", "bottom", "side">>), planks)>>,
            HalfSlabVariants),
       CubeAllCall(<<"slab", "full", "wood", wood_type>>, Str(planks), Omitted, Omitted),
       \* TRAPDOORS, lines 646-648
       BlockstateCall(<<"wood", "trapdoor", wood_type>>, Null,
            <<Tex(Str("texture"), "tfc:blocks/wood/trapdoor/" \o wood_type)>>,
            T.TRAPDOOR_VARIANTS),
       \* CHESTS, lines 651-658
       BlockstateCall(<<"wood", "chest", wood_type>>, Str("tfc:chest"),
            <<Tex(Str("texture"), "tfc:model/wood/chest/" \o wood_type),
              Tex(Str("particle"), planks)>>,
            Omitted),
       BlockstateCall(<<"wood", "chest_trap", wood_type>>, Str("tfc:chest"),
            <<Tex(Str("texture"), "tfc:model/wood/chest_trap/" \o wood_type),
              Tex(Str("particle"), planks)>>,
            Omitted),
       \* (WOOD) BUTTON, lines 661-679
       BlockstateCall(<<"wood", "button", wood_type>>, Str("button"),
            <<Tex(Tuple(<<"texture", "particle">>), planks)>>,
            ButtonVariants),
       \* BOOKSHELF, lines 682-685
       BlockstateCall(<<"wood", "bookshelf", wood_type>>, Str("tfc:bookshelf"),
            <<Tex(Tuple(<<"all", "particle">>), planks),
              Tex(Tuple(Sides), "tfc:blocks/wood/bookshelf")>>,
            Omitted),
       \* WORKBENCH, lines 688-693
       BlockstateCall(<<"wood", "workbench", wood_type>>, Str("tfc:workbench"),
            <<Tex(Tuple(<<"all", "particle">>), planks),
              Tex(Str("top"), "tfc:blocks/wood/workbench_top"),
              Tex(Tuple(<<"north", "south">>), "tfc:blocks/wood/workbench_front"),
              Tex(Tuple(<<"east", "west">>), "tfc:blocks/wood/workbench_side")>>,
            Omitted)
    >>

\* BLOCKSTATES, lines 462-693
BlockCalls(T) ==
    FluidBlocks(T)
    \o Flatten([i \in 1..Len(T.ROCK_TYPES) |-> RockBlocks(T, T.ROCK_TYPES[i])])
    \o Flatten([i \in 1..Len(T.WOOD_TYPES) |-> WoodBlocks(T, T.WOOD_TYPES[i])])

----------------------------------------------------------------------------
(* ITEMS, lines 705-802 *)

\* s.startswith(prefix)
StartsWith(s, prefix) == Len(s) >= Len(prefix) /\ SubSeq(s, 1, Len(prefix)) = prefix

\* s.replace(old, new)
RECURSIVE str_replace(_, _, _)
str_replace(s, old, new) ==
    IF Len(s) < Len(old) THEN s
    ELSE IF StartsWith(s, old)
         THEN new \o str_replace(SubSeq(s, Len(old) + 1, Len(s)), old, new)
         ELSE CharAt(s, 1) \o str_replace(SubSeq(s, 2, Len(s)), old, new)

\* s.split(sep)[0], for a separator of one character
RECURSIVE split_first(_, _)
split_first(s, sep) ==
    IF Len(s) = 0 \/ CharAt(s, 1) = sep THEN ""
    ELSE CharAt(s, 1) \o split_first(SubSeq(s, 2, Len(s)), sep)

\* A call of item with one layer and the default parent.
Icon(filename_parts, texture) == ItemCall(filename_parts, <<Str(texture)>>, Omitted)

\* ORES, lines 705-709
OreItems(T) ==
    Flatten([i \in 1..Len(T.ORE_TYPES) |->
        LET ore_type == T.ORE_TYPES[i].k
            grades == <<"poor", "rich", "small">>
        IN  (IF T.ORE_TYPES[i].v
             THEN [g \in 1..Len(grades) |->
                     Icon(<<"ore", grades[g], ore_type>>,
                          "tfc:items/ore/" \o grades[g] \o "/" \o ore_type)]
             ELSE <<>>)
            \o <<Icon(<<"ore", "normal", ore_type>>, "tfc:items/ore/" \o ore_type)>>])

\* ROCKS, lines 712-714
RockItems(T) ==
    Flatten([i \in 1..Len(T.ROCK_TYPES) |->
        LET types == <<"rock", "brick">>
        IN  [j \in 1..Len(types) |->
                Icon(<<types[j], T.ROCK_TYPES[i]>>,
                     "tfc:items/stonetypes/" \o types[j] \o "/" \o T.ROCK_TYPES[i])]])

\* DOORS, lines 717-719
WoodLogAndDoorItems(T) ==
    Flatten([i \in 1..Len(T.WOOD_TYPES) |->
        <<Icon(<<"wood", "log", T.WOOD_TYPES[i]>>, "tfc:items/wood/log/" \o T.WOOD_TYPES[i]),
          Icon(<<"wood", "door", T.WOOD_TYPES[i]>>, "tfc:items/wood/door/" \o T.WOOD_TYPES[i])>>])

\* GEMS, lines 722-724
GemItems(T) ==
    Flatten([i \in 1..Len(T.GEM_TYPES) |->
        [j \in 1..Len(T.GEM_GRADES) |->
            Icon(<<"gem", T.GEM_GRADES[j], T.GEM_TYPES[i]>>,
                 "tfc:items/gem/" \o T.GEM_GRADES[j] \o "/" \o T.GEM_TYPES[i])]])

\* The test of line 729 without the "not": a tool-capable metal is skipped.
skip_metal_item_inverted(tool_item, tool_metal) == tool_item /\ tool_metal

\* Line 729: if tool_item and not tool_metal: continue
skip_metal_item(tool_item, tool_metal) == tool_item /\ ~tool_metal

\* Lines 731-733
metal_item_parent(T, item_type) ==
    IF InList(item_type, <<"knife", "javelin">>) THEN Str("tfc:item/handheld_flipped")
    ELSE IF InList(item_type, T.TOOLS) THEN Str("item/handheld")
    ELSE Str("item/generated")

\* Lines 729-734, the body of the loops for item i of METAL_ITEMS and metal
\* j of METAL_TYPES: the call it makes, or none
MetalItem(T, i, j) ==
    LET item_type == T.METAL_ITEMS[i].k
        metal == T.METAL_TYPES[j].k
    IN  IF skip_metal_item(T.METAL_ITEMS[i].v, T.METAL_TYPES[j].v) THEN <<>>
        ELSE <<ItemCall(<<"metal", item_type, metal>>,
                  <<Str("tfc:items/metal/" \o str_replace(item_type, "unfinished_", "")
                        \o "/" \o metal)>>,
                  metal_item_parent(T, item_type))>>

\* METALS, lines 727-734
MetalItems(T) ==
    Flatten([i \in 1..Len(T.METAL_ITEMS) |->
        Flatten([j \in 1..Len(T.METAL_TYPES) |-> MetalItem(T, i, j)])])

SteelGrades == <<"high_carbon", "weak">>

\* Lines 735-737 with the metal left out of the file name: the iterations
\* of the outer loop write to the same file.
SteelIngotItems_one_file(order) ==
    Flatten([i \in 1..Len(order) |->
        [j \in 1..Len(SteelGrades) |->
            Icon(<<"metal", "ingot", SteelGrades[j]>>,
                 "tfc:items/metal/ingot/" \o order[i])]])

\* Lines 735-737, for the order in which STEEL is iterated
SteelIngotItems(order) ==
    Flatten([i \in 1..Len(order) |->
        [j \in 1..Len(SteelGrades) |->
            Icon(<<"metal", "ingot", SteelGrades[j] \o "_" \o order[i]>>,
                 "tfc:items/metal/ingot/" \o order[i])]])

\* WOOD STUFF, lines 741-742
LumberItems(T) ==
    [i \in 1..Len(T.WOOD_TYPES) |->
        Icon(<<"wood", "lumber", T.WOOD_TYPES[i]>>, "tfc:items/wood/lumber/" \o T.WOOD_TYPES[i])]

\* ROCK TOOLS, lines 745-750
RockToolItems(T) ==
    Flatten([i \in 1..Len(T.ROCK_CATEGORIES) |->
        LET types == <<"axe", "shovel", "hoe", "knife", "javelin", "hammer">>
        IN  [j \in 1..Len(types) |->
                ItemCall(<<"stone", types[j], T.ROCK_CATEGORIES[i]>>,
                    <<Str("tfc:items/stone/" \o types[j])>>,
                    IF InList(types[j], <<"knife", "javelin">>)
                    THEN Str("tfc:item/handheld_flipped") ELSE Str("item/handheld"))]])

\* POWDERS, lines 753-754
PowderItems(T) ==
    [i \in 1..Len(T.POWDERS) |-> Icon(<<"powder", T.POWDERS[i]>>, "tfc:items/powder/" \o T.POWDERS[i])]

\* GOLDPAN, lines 757-758
GoldpanItems ==
    LET types == <<"empty", "sand", "gravel", "clay", "dirt">>
    IN  [i \in 1..Len(types) |-> Icon(<<"goldpan", types[i]>>, "tfc:items/goldpan/" \o types[i])]

\* Line 761
_heads(T) ==
    [i \in 1..Len(T.TOOLS) |-> T.TOOLS[i] \o "_head"] \o [i \in 1..Len(T.TOOLS) |-> T.TOOLS[i] \o "_blade"]

\* CERAMICS: the tool molds, lines 762-766
ToolMoldItems(T) ==
    LET metals == <<"empty", "unfired", "copper", "bronze", "black_bronze", "bismuth_bronze">>
    IN  Flatten([i \in 1..Len(metals) |->
            Flatten([j \in 1..Len(T.METAL_ITEMS) |->
                LET item_type == T.METAL_ITEMS[j].k
                IN  IF ~InList(item_type, _heads(T)) THEN <<>>
                    ELSE <<Icon(<<"mold", item_type, metals[i]>>,
                               "tfc:items/mold/" \o metals[i] \o "/"
                               \o split_first(item_type, "_"))>>])])

\* Lines 768-770
IngotMoldItems(T) ==
    LET metals == [i \in 1..Len(T.METAL_TYPES) |-> T.METAL_TYPES[i].k] \o <<"unfired", "empty">>
    IN  [i \in 1..Len(metals) |->
            Icon(<<"mold", "ingot", metals[i]>>, "tfc:items/mold/ingot/" \o metals[i])]
        \o <<Icon(<<"mold", "ingot", "unknown">>, "tfc:items/mold/ingot/unknown")>>

\* Lines 771-773, for the order in which STEEL is iterated
SteelMoldItems(order) ==
    Flatten([i \in 1..Len(order) |->
        [j \in 1..Len(SteelGrades) |->
            Icon(<<"mold", "ingot", SteelGrades[j] \o "_" \o order[i]>>,
                 "tfc:items/mold/ingot/" \o order[i])]])

\* Lines 775-795
CeramicItems ==
    <<Icon(<<"ceramics", "unfired", "vessel">>, "tfc:items/ceramics/unfired/vessel"),
      Icon(<<"ceramics", "fired", "vessel">>, "tfc:items/ceramics/fired/vessel"),
      ItemCall(<<"ceramics", "unfired", "vessel_glazed">>,
          <<Str("tfc:items/ceramics/unfired/vessel"),
            Str("tfc:items/ceramics/fired/vessel_overlay")>>, Omitted),
      ItemCall(<<"ceramics", "fired", "vessel_glazed">>,
          <<Str("tfc:items/ceramics/fired/vessel"),
            Str("tfc:items/ceramics/fired/vessel_overlay")>>, Omitted),
      Icon(<<"ceramics", "unfired", "spindle">>, "tfc:items/ceramics/unfired/spindle"),
      Icon(<<"ceramics", "fired", "spindle">>, "tfc:items/ceramics/fired/spindle"),
      Icon(<<"ceramics", "unfired", "pot">>, "tfc:items/ceramics/unfired/pot"),
      Icon(<<"ceramics", "fired", "pot">>, "tfc:items/ceramics/fired/pot"),
      Icon(<<"ceramics", "unfired", "bowl">>, "tfc:items/ceramics/unfired/bowl"),
      Icon(<<"ceramics", "fired", "bowl">>, "tfc:items/ceramics/fired/bowl"),
      Icon(<<"ceramics", "unfired", "fire_brick">>, "tfc:items/ceramics/unfired/fire_brick"),
      Icon(<<"ceramics", "fired", "fire_brick">>, "tfc:items/ceramics/fired/fire_brick"),
      Icon(<<"ceramics", "unfired", "jug">>, "tfc:items/ceramics/unfired/jug"),
      Icon(<<"ceramics", "fired", "jug">>, "tfc:items/ceramics/fired/jug"),
      Icon(<<"ceramics", "fire_clay">>, "tfc:items/ceramics/fire_clay")>>

\* FLAT, lines 798-802
FlatItems(T) ==
    [i \in 1..Len(T.ROCK_TYPES) |-> Icon(<<"flat", T.ROCK_TYPES[i]>>, "tfc:items/flat/" \o T.ROCK_TYPES[i])]
    \o <<Icon(<<"flat", "leather">>, "tfc:items/flat/leather"),
         Icon(<<"flat", "clay">>, "tfc:items/flat/clay"),
         Icon(<<"flat", "fire_clay">>, "tfc:items/flat/fire_clay")>>

\* The item calls before the first loop over STEEL, lines 705-734
ItemCallsBeforeSteel(T) ==
    OreItems(T) \o RockItems(T) \o WoodLogAndDoorItems(T) \o GemItems(T) \o MetalItems(T)

\* The item calls between the two loops over STEEL, lines 738-770
ItemCallsBetweenSteel(T) ==
    <<Icon(<<"metal", "ingot", "unknown">>, "tfc:items/metal/ingot/unknown")>>
    \o LumberItems(T) \o RockToolItems(T) \o PowderItems(T) \o GoldpanItems
    \o ToolMoldItems(T) \o IngotMoldItems(T)

\* The item calls after the second loop over STEEL, lines 775-802
ItemCallsAfterSteel(T) == CeramicItems \o FlatItems(T)

\* ITEMS, lines 705-802, for the order in which STEEL is iterated
ItemCalls(T, order) ==
    ItemCallsBeforeSteel(T) \o SteelIngotItems(order) \o ItemCallsBetweenSteel(T)
    \o SteelMoldItems(order) \o ItemCallsAfterSteel(T)

\* What a call writes: the path, its directory and the object.
Run(c) ==
    CASE c.fn = "blockstate" ->
            blockstate(c.filename_parts, c.model, c.textures, c.variants)
      [] c.fn = "cube_all" ->
            cube_all(c.filename_parts, c.texture, c.variants, c.model)
      [] c.fn = "item" ->
            item(c.filename_parts, c.layers, c.parent)

----------------------------------------------------------------------------
(* The run of the script: the archival step, lines 30-40, then the         *)
(* emission calls, lines 462-802.  The tables of a run are the first       *)
(* MaxRows rows of each enumeration table; the variant tables are whole.   *)

MaxRows == 2

Take(seq, n) == SubSeq(seq, 1, IF Len(seq) < n THEN Len(seq) ELSE n)

RECURSIVE TakeSet(_, _)
TakeSet(S, n) ==
    IF n = 0 \/ S = {} THEN {}
    ELSE LET x == CHOOSE y \in S : TRUE IN {x} \cup TakeSet(S \ {x}, n - 1)

\* The tables as the script defines them, lines 42-380
Tables ==
    [ROCK_TYPES |-> ROCK_TYPES, ROCK_CATEGORIES |-> ROCK_CATEGORIES,
     FULLBLOCK_TYPES |-> FULLBLOCK_TYPES, GRASS_TYPES |-> GRASS_TYPES,
     ORE_TYPES |-> ORE_TYPES, POWDERS |-> POWDERS, WOOD_TYPES |-> WOOD_TYPES,
     GEM_TYPES |-> GEM_TYPES, GEM_GRADES |-> GEM_GRADES, METAL_TYPES |-> METAL_TYPES,
     METAL_ITEMS |-> METAL_ITEMS, STEEL |-> STEEL, TOOLS |-> TOOLS, FLUIDS |-> FLUIDS,
     DOOR_VARIANTS |-> DOOR_VARIANTS, TRAPDOOR_VARIANTS |-> TRAPDOOR_VARIANTS,
     STAIR_VARIANTS |-> STAIR_VARIANTS]

FirstRows(T, n) ==
    [ROCK_TYPES |-> Take(T.ROCK_TYPES, n), ROCK_CATEGORIES |-> Take(T.ROCK_CATEGORIES, n),
     FULLBLOCK_TYPES |-> Take(T.FULLBLOCK_TYPES, n), GRASS_TYPES |-> Take(T.GRASS_TYPES, n),
     ORE_TYPES |-> Take(T.ORE_TYPES, n), POWDERS |-> Take(T.POWDERS, n),
     WOOD_TYPES |-> Take(T.WOOD_TYPES, n), GEM_TYPES |-> Take(T.GEM_TYPES, n),
     GEM_GRADES |-> Take(T.GEM_GRADES, n), METAL_TYPES |-> Take(T.METAL_TYPES, n),
     METAL_ITEMS |-> Take(T.METAL_ITEMS, n), STEEL |-> TakeSet(T.STEEL, n),
     TOOLS |-> Take(T.TOOLS, n), FLUIDS |-> Take(T.FLUIDS, n),
     DOOR_VARIANTS |-> T.DOOR_VARIANTS, TRAPDOOR_VARIANTS |-> T.TRAPDOOR_VARIANTS,
     STAIR_VARIANTS |-> T.STAIR_VARIANTS]

\* The orders in which a set can be iterated.
Orders(S) == {o \in [1..Cardinality(S) -> S] : \A x \in S : \E i \in DOMAIN o : o[i] = x}

\* Lines 404-408 and 426-430 with _variants = variants in the place of the
\* copy: del_none prunes the caller's table itself, top level included.
prune_shared_no_copy(variants) == del_none(variants)

\* del_none works in place, and _variants.update(variants) copies only the
\* top level of the caller's table: the nested mappings of a shared variant
\* table are the ones del_none prunes.
prune_shared(variants) ==
    Dict([k \in DOMAIN variants.d |->
            IF variants.d[k] # Null /\ variants.d[k].t = "dict"
            THEN del_none(variants.d[k]) ELSE variants.d[k]])

SharedTables == {"DOOR_VARIANTS", "TRAPDOOR_VARIANTS", "STAIR_VARIANTS"}

\* The tables after a call: a shared table the call was given is pruned.
after_call(T, c) ==
    [name \in DOMAIN T |->
        IF name \in SharedTables /\ "variants" \in DOMAIN c /\ c.variants = T[name]
        THEN prune_shared(T[name]) ELSE T[name]]

\* The caller's textures mapping after a call of blockstate, lines 410-430:
\* the keys go into the new dict _textures, and the values are shared with
\* it, so that a value that is a mapping is pruned by del_none in place.
textures_after(textures) ==
    [i \in DOMAIN textures |->
        [key |-> textures[i].key,
         val |-> IF textures[i].val.t = "dict" THEN del_none(textures[i].val)
                 ELSE textures[i].val]]

\* The same loops with the item loops moved before the blockstate loops.
Phases_items_first ==
    <<"items_before_steel", "steel_ingots", "items_between_steel",
      "steel_molds", "items_after_steel", "fluids", "rocks", "woods">>

\* The loops of the script in program order: the blockstate loops of lines
\* 462-470, 473-559 and 563-693, then the item loops; the two loops over
\* STEEL, lines 735-737 and 771-773, are phases of their own.
Phases ==
    <<"fluids", "rocks", "woods", "items_before_steel", "steel_ingots",
      "items_between_steel", "steel_molds", "items_after_steel">>

SteelPhases == {"steel_ingots", "steel_molds"}

\* The iterations of the outer loop of a phase: the loops over ROCK_TYPES
\* and WOOD_TYPES are gone through one iteration at a time.
PhaseRows(ph, T) ==
    CASE ph = "rocks" -> Len(T.ROCK_TYPES)
      [] ph = "woods" -> Len(T.WOOD_TYPES)
      [] OTHER -> 1

\* The calls of iteration r of a phase.
PhaseCalls(ph, T, order, r) ==
    CASE r > PhaseRows(ph, T) -> <<>>
      [] ph = "fluids" -> FluidBlocks(T)
      [] ph = "rocks" -> RockBlocks(T, T.ROCK_TYPES[r])
      [] ph = "woods" -> WoodBlocks(T, T.WOOD_TYPES[r])
      [] ph = "items_before_steel" -> ItemCallsBeforeSteel(T)
      [] ph = "steel_ingots" -> SteelIngotItems(order)
      [] ph = "items_between_steel" -> ItemCallsBetweenSteel(T)
      [] ph = "steel_molds" -> SteelMoldItems(order)
      [] ph = "items_after_steel" -> ItemCallsAfterSteel(T)

PhaseIndex(ph) == CHOOSE i \in DOMAIN Phases : Phases[i] = ph

InPhase == \E i \in DOMAIN Phases : Phases[i] = pc

\* Line 30 and line 38, the paths of the archival step
backups_dir == "assets_backups"
target_dir == "src/main/resources/assets/tfc"

\* Lines 33-36, what the two print calls write
Gitignore ==
    Raw("# This folder does not belong on git. Not even as an empty folder, "
        \o "so we ignore everything, incl. this file.\n*\n")

\* int(time.time()) at line 38
Clock == {1793589358, 1793589359}

\* Line 38: 'assets_backups/{}.zip'.format(int(time.time()))
archive_name(now) == os_path_join(backups_dir, <<ToString(now) \o ".zip">>)

Zip(entries, closed) == [t |-> "zip", entries |-> entries, closed |-> closed]

\* Line 23 without the separator that follows target_dir.
rootlen_no_separator(dir) == Len(dir)

\* Line 23
rootlen(dir) == Len(dir) + 1

\* os.path.basename(p)
os_path_basename(p) ==
    SubSeq(p, (IF Slashes(p) = {} THEN 0 ELSE Max(Slashes(p))) + 1, Len(p))

\* Lines 24-26: the fn of a file of the tree, the file given by its path
\* below target_dir.
walk_fn(f) ==
    LET base == IF Slashes(f) = {} THEN target_dir
                ELSE os_path_join(target_dir, <<os_path_dirname(f)>>)
    IN  os_path_join(base, <<os_path_basename(f)>>)

\* Line 27: fn[rootlen:]
arcname(f) == LET fn == walk_fn(f) IN SubSeq(fn, rootlen(target_dir) + 1, Len(fn))

\* The directories of a tree that holds the files at the given paths.
DirsOf(paths) == UNION {makedirs(os_path_dirname(p)) : p \in {q \in paths : Slashes(q) # {}}}

\* The files of a tree at or below the directory d ("" is the root).
Below(paths, d) == {p \in paths : d = "" \/ StartsWith(p, d \o "/")}

\* A file that json.dump did not finish.
Truncated == Raw("")

\* The trees a run can find: none, an empty one, one left by an earlier run.
OldTree ==
    ("old.txt" :> Raw("stale")) @@ ("blockstates/raw/granite.json" :> Raw("old"))

OldArchive == Zip(SetToBag({[arcname |-> "old.txt", content |-> Raw("older")]}), TRUE)

Init ==
    /\ arg = EmptyDict /\ ret = Unset /\ call = Unset
    /\ pc = "isdir" /\ calls = <<>> /\ row = 0 /\ idx = 0 /\ steel = Unset
    /\ tables = FirstRows(Tables, MaxRows)
    /\ \/ backupsDir = FALSE /\ backups = <<>>
       \/ /\ backupsDir = TRUE
          /\ backups = (os_path_join(backups_dir, <<".gitignore">>) :> Gitignore)
                       @@ (archive_name(CHOOSE now \in Clock : TRUE) :> OldArchive)
    /\ \/ treeDir = FALSE /\ files = <<>>
       \/ treeDir = TRUE /\ files \in {<<>>, OldTree}
    /\ dirs = DirsOf(DOMAIN files)
    /\ files0 = files
    /\ zip_name = Unset /\ todo = {}
    /\ failed = {} /\ archived = FALSE /\ nBlock = 0 /\ nItem = 0

\* An operation raised: nothing handles the exception, the script ends.
Abort(op) == pc' = "aborted" /\ failed' = failed \cup {op}

\* Line 30: os.path.isdir gives False where it cannot tell.
IsDir ==
    /\ pc = "isdir"
    /\ pc' = IF backupsDir THEN "zipfolder" ELSE "mkdir"
    /\ UNCHANGED <<pruneVars, emitVars, calls, row, idx, tables, steel, backupsDir, backups, treeDir,
                   zip_name, todo, files0, failed, archived, nBlock, nItem>>

\* Line 31
Mkdir ==
    /\ pc = "mkdir"
    /\ backupsDir' = TRUE
    /\ pc' = "gitignore"
    /\ UNCHANGED <<pruneVars, emitVars, calls, row, idx, tables, steel, backups, treeDir,
                   zip_name, todo, files0, failed, archived, nBlock, nItem>>

MkdirFails ==
    /\ pc = "mkdir"
    /\ Abort("mkdir")
    /\ UNCHANGED <<pruneVars, emitVars, calls, row, idx, tables, steel, backupsDir, backups, treeDir,
                   zip_name, todo, files0, archived, nBlock, nItem>>

\* Lines 32-36
WriteGitignore ==
    /\ pc = "gitignore"
    /\ backups' = Assign(backups, os_path_join(backups_dir, <<".gitignore">>), Gitignore)
    /\ pc' = "zipfolder"
    /\ UNCHANGED <<pruneVars, emitVars, calls, row, idx, tables, steel, backupsDir, treeDir,
                   zip_name, todo, files0, failed, archived, nBlock, nItem>>

\* open raises, or print does and leaves the file short.
WriteGitignoreFails ==
    /\ pc = "gitignore"
    /\ \/ UNCHANGED backups
       \/ backups' = Assign(backups, os_path_join(backups_dir, <<".gitignore">>), Truncated)
    /\ Abort("gitignore")
    /\ UNCHANGED <<pruneVars, emitVars, calls, row, idx, tables, steel, backupsDir, treeDir,
                   zip_name, todo, files0, archived, nBlock, nItem>>

\* Lines 38 and 22-24: the name is formatted, the archive is opened for
\* writing, and os.walk starts.  os.walk swallows the error of listing a
\* directory (its onerror is None), a missing target_dir included: the walk
\* of a missing tree yields nothing.
ZipOpen ==
    /\ pc = "zipfolder"
    /\ \E now \in Clock :
        /\ zip_name' = archive_name(now)
        /\ backups' = Assign(backups, zip_name', Zip(EmptyBag, FALSE))
    /\ todo' = DOMAIN files
    /\ failed' = IF treeDir THEN failed ELSE failed \cup {"listdir"}
    /\ pc' = "walk"
    /\ UNCHANGED <<pruneVars, emitVars, calls, row, idx, tables, steel, backupsDir, treeDir,
                   files0, archived, nBlock, nItem>>

ZipOpenFails ==
    /\ pc = "zipfolder"
    /\ Abort("zip_open")
    /\ UNCHANGED <<pruneVars, emitVars, calls, row, idx, tables, steel, backupsDir, backups, treeDir,
                   zip_name, todo, files0, archived, nBlock, nItem>>

\* Lines 25-27, one file of the walk
ZipWrite ==
    /\ pc = "walk"
    /\ \E f \in todo :
        /\ backups' = [backups EXCEPT ![zip_name].entries =
                          @ (+) SetToBag({[arcname |-> arcname(f), content |-> files[f]]})]
        /\ todo' = todo \ {f}
    /\ UNCHANGED <<pruneVars, emitVars, pc, calls, row, idx, tables, steel, backupsDir, treeDir,
                   zip_name, files0, failed, archived, nBlock, nItem>>

\* zipobj.write raises; the finalizer of zipobj may or may not leave a
\* readable archive of the entries written so far.
ZipWriteFails ==
    /\ pc = "walk" /\ todo # {}
    /\ \E closed \in BOOLEAN : backups' = [backups EXCEPT ![zip_name].closed = closed]
    /\ Abort("zip_write")
    /\ UNCHANGED <<pruneVars, emitVars, calls, row, idx, tables, steel, backupsDir, treeDir,
                   zip_name, todo, files0, archived, nBlock, nItem>>

\* Line 24: a directory of the tree cannot be listed.  os.walk swallows the
\* error and goes on without the files at or below that directory.
WalkSkipsDir ==
    /\ pc = "walk"
    /\ \E d \in {""} \cup DirsOf(todo) :
        /\ Below(todo, d) # {}
        /\ todo' = todo \ Below(todo, d)
    /\ failed' = failed \cup {"listdir"}
    /\ UNCHANGED <<pruneVars, emitVars, pc, calls, row, idx, tables, steel, backupsDir, backups,
                   treeDir, zip_name, files0, archived, nBlock, nItem>>

\* zipfolder returns: no statement closes zipobj, its finalizer does when
\* the last reference goes.
ZipClose ==
    /\ pc = "walk" /\ todo = {}
    /\ backups' = [backups EXCEPT ![zip_name].closed = TRUE]
    /\ archived' = TRUE
    /\ pc' = "chdir"
    /\ UNCHANGED <<pruneVars, emitVars, calls, row, idx, tables, steel, backupsDir, treeDir,
                   zip_name, todo, files0, failed, nBlock, nItem>>

\* The finalizer raises: an exception in a finalizer is reported and
\* dropped, the script goes on.
ZipCloseFails ==
    /\ pc = "walk" /\ todo = {}
    /\ failed' = failed \cup {"zip_close"}
    /\ archived' = TRUE
    /\ pc' = "chdir"
    /\ UNCHANGED <<pruneVars, emitVars, calls, row, idx, tables, steel, backupsDir, backups, treeDir,
                   zip_name, todo, files0, nBlock, nItem>>

\* Line 40
Chdir ==
    /\ pc = "chdir" /\ treeDir
    /\ pc' = Phases[1] /\ row' = 1 /\ idx' = 1
    /\ calls' = PhaseCalls(pc', tables, steel, row')
    /\ UNCHANGED <<pruneVars, emitVars, tables, steel, backupsDir, backups, treeDir,
                   zip_name, todo, files0, failed, archived, nBlock, nItem>>

ChdirFails ==
    /\ pc = "chdir"
    /\ Abort("chdir")
    /\ UNCHANGED <<pruneVars, emitVars, calls, row, idx, tables, steel, backupsDir, backups, treeDir,
                   zip_name, todo, files0, archived, nBlock, nItem>>

\* The order in which this process iterates STEEL, lines 735 and 771: the
\* set is built once, so both loops see the same order.
IterSteel ==
    /\ pc \in SteelPhases /\ steel = Unset
    /\ steel' \in Orders(tables.STEEL)
    /\ calls' = PhaseCalls(pc, tables, steel', row)
    /\ UNCHANGED <<pruneVars, emitVars, pc, row, idx, tables, backupsDir, backups, treeDir,
                   zip_name, todo, files0, failed, archived, nBlock, nItem>>

CanCall ==
    /\ InPhase
    /\ pc \in SteelPhases => steel # Unset
    /\ idx <= Len(calls)

\* One emission call of lines 462-802
EmitCall ==
    /\ CanCall
    /\ LET c == calls[idx]
           r == Run(c)
       IN  /\ Emit(r)
           /\ call' = [p |-> r.p] @@ c
           /\ tables' = after_call(tables, c)
           /\ calls' = IF tables' = tables THEN calls ELSE PhaseCalls(pc, tables', steel, row)
           /\ nBlock' = IF StartsWith(r.p, "blockstates/") THEN nBlock + 1 ELSE nBlock
           /\ nItem' = IF StartsWith(r.p, "models/") THEN nItem + 1 ELSE nItem
    /\ idx' = idx + 1
    /\ UNCHANGED <<pruneVars, pc, row, steel, backupsDir, backups, treeDir,
                   zip_name, todo, files0, failed, archived>>

\* os.makedirs raises, or open does, or json.dump does and leaves the file
\* short.
EmitCallFails ==
    /\ CanCall
    /\ LET r == Run(calls[idx])
       IN  \/ Abort("makedirs") /\ UNCHANGED <<dirs, files>>
           \/ Abort("open") /\ dirs' = dirs \cup makedirs(r.dir) /\ UNCHANGED files
           \/ /\ Abort("dump")
              /\ dirs' = dirs \cup makedirs(r.dir)
              /\ files' = Assign(files, r.p, Truncated)
    /\ UNCHANGED <<pruneVars, call, calls, row, idx, tables, steel, backupsDir, backups, treeDir,
                   zip_name, todo, files0, archived, nBlock, nItem>>

\* The loops of a phase are over: the next ones start, or the script ends.
NextPhase ==
    /\ InPhase
    /\ pc \in SteelPhases => steel # Unset
    /\ idx > Len(calls)
    /\ IF row < PhaseRows(pc, tables)
       THEN pc' = pc /\ row' = row + 1
       ELSE /\ pc' = IF PhaseIndex(pc) < Len(Phases) THEN Phases[PhaseIndex(pc) + 1]
                     ELSE "done"
            /\ row' = 1
    /\ calls' = IF pc' = "done" \/ (pc' \in SteelPhases /\ steel = Unset) THEN <<>>
                ELSE PhaseCalls(pc', tables, steel, row')
    /\ idx' = 1
    /\ UNCHANGED <<pruneVars, emitVars, tables, steel, backupsDir, backups, treeDir,
                   zip_name, todo, files0, failed, archived, nBlock, nItem>>

Next ==
    \/ IsDir \/ Mkdir \/ MkdirFails \/ WriteGitignore \/ WriteGitignoreFails
    \/ ZipOpen \/ ZipOpenFails \/ ZipWrite \/ ZipWriteFails \/ WalkSkipsDir
    \/ ZipClose \/ ZipCloseFails \/ Chdir \/ ChdirFails
    \/ IterSteel \/ EmitCall \/ EmitCallFails \/ NextPhase

Spec == Init /\ [][Next]_vars

----------------------------------------------------------------------------
(* One emission call: with arguments of the bounded sets, or with the      *)
(* arguments of a call of the script.                                      *)

Range(seq) == {seq[i] : i \in DOMAIN seq}

\* The calls of lines 462-802, for any order of STEEL
ScriptCalls ==
    LET T == FirstRows(Tables, MaxRows)
    IN  Range(BlockCalls(T)) \cup UNION {Range(ItemCalls(T, order)) : order \in Orders(T.STEEL)}

CallAsScript ==
    /\ call = Unset
    /\ \E c \in ScriptCalls :
        LET r == Run(c)
        IN  /\ Emit(r)
            /\ call' = [p |-> r.p] @@ c
    /\ UNCHANGED <<pruneVars, runVars>>

EmitNext == CallBlockstate \/ CallCubeAll \/ CallModel \/ CallItem \/ CallAsScript

SpecEmit == EmitInit /\ [][EmitNext]_vars

\* The call gave a variant table that maps "normal" to None.
NormalIsNull ==
    /\ IsBlockCall /\ call.variants \notin {Omitted, Null}
    /\ "normal" \in DOMAIN call.variants.d /\ call.variants.d["normal"] = Null

\* The door, trapdoor and wall blockstate files, lines 512, 625 and 645
IsDoorTrapdoorOrWall(p) ==
    \/ StartsWith(p, "blockstates/wood/door/")
    \/ StartsWith(p, "blockstates/wood/trapdoor/")
    \/ StartsWith(p, "blockstates/wall/")

----------------------------------------------------------------------------
(* The order of a run, its failures and its archive                         *)

ArchivalOps == {"mkdir", "gitignore", "zip_open", "zip_write", "listdir", "zip_close"}

\* C9, the whole of it: once a filesystem operation of the run has failed the
\* run is over, and nothing is written later.
C9_FailStop ==
    [][failed # {} => (pc = "aborted" /\ UNCHANGED <<dirs, files, backupsDir, backups>>)]_vars

\* C9, the case it names: when an operation of the archival step has failed,
\* no descriptor file is written and the output tree is as it was before
\* the run.
C9_ArchivalFailureLeavesTree ==
    (failed \cap ArchivalOps # {}) =>
        nBlock = 0 /\ nItem = 0 /\ files = files0 /\ dirs = DirsOf(DOMAIN files0)

\* One entry for every file of a tree, keyed by its path below the root.
Snapshot(tree) == SetToBag({[arcname |-> p, content |-> tree[p]] : p \in DOMAIN tree})

\* C10: once zipfolder has returned, the archive is the file
\* assets_backups/<seconds>.zip, it is finalized, and it holds exactly one
\* entry for every file the output tree held when the run started, keyed by
\* the path below the tree root, with the content of that moment: nothing
\* the run writes later, nothing of assets_backups.
C10_ArchiveIsSnapshot ==
    archived =>
        /\ \E now \in Clock : zip_name = "assets_backups/" \o ToString(now) \o ".zip"
        /\ zip_name \in DOMAIN backups
        /\ backups[zip_name].closed
        /\ backups[zip_name].entries = Snapshot(files0)

\* C10 for the runs in which neither the listing of a directory nor the
\* finalizing of the archive failed.
C10_ArchiveIsSnapshotUnlessSwallowed ==
    (failed \cap {"listdir", "zip_close"} = {}) => C10_ArchiveIsSnapshot

----------------------------------------------------------------------------
(* What a complete run leaves                                               *)

\* The files a sequence of emission calls leaves in an empty tree: at each
\* path, what the last call that opens it writes.
WriteAll(cs) ==
    LET rs == [i \in DOMAIN cs |-> Run(cs[i])]
    IN  [p \in {rs[i].p : i \in DOMAIN rs} |->
            rs[Max({i \in DOMAIN rs : rs[i].p = p})].obj]

\* The descriptor files of lines 462-802 for the tables T, written into an
\* empty tree with STEEL iterated in the given order.
Descriptors(T, order) == WriteAll(BlockCalls(T) \o ItemCalls(T, order))

\* One of the orders of STEEL, and the descriptors it gives for the tables
\* of a run.
SomeSteelOrder == CHOOSE order \in Orders(FirstRows(Tables, MaxRows).STEEL) : TRUE
RunDescriptors == Descriptors(FirstRows(Tables, MaxRows), SomeSteelOrder)

\* C11: when a run has completed, the descriptor files in the tree are the
\* same set with the same contents whatever the order in which STEEL was
\* iterated and whatever the tree held before: they are the files one fixed
\* order writes into an empty tree, and the run has added no other file.
C11_Deterministic ==
    pc = "done" =>
        /\ DOMAIN RunDescriptors \subseteq DOMAIN files
        /\ \A p \in DOMAIN RunDescriptors : files[p] = RunDescriptors[p]
        /\ DOMAIN files \ DOMAIN files0 \subseteq DOMAIN RunDescriptors
        /\ \A p \in DOMAIN files0 \ DOMAIN RunDescriptors : files[p] = files0[p]

\* A run that iterated STEEL in another order, over a tree that held an older
\* file at the path of a descriptor, has completed.
C11_Witness ==
    /\ pc = "done"
    /\ steel # SomeSteelOrder
    /\ "blockstates/raw/granite.json" \in DOMAIN files0
    /\ files["blockstates/raw/granite.json"] # files0["blockstates/raw/granite.json"]

----------------------------------------------------------------------------
(* The emission calls of a run over the whole of the enumeration tables:   *)
(* the script from line 462 on, after an archival step that found an empty *)
(* output tree and no archive directory.                                   *)

InitFull ==
    /\ arg = EmptyDict /\ ret = Unset /\ call = Unset
    /\ tables = Tables /\ steel = Unset
    /\ pc = Phases[1] /\ row = 1 /\ idx = 1
    /\ calls = PhaseCalls(Phases[1], Tables, Unset, 1)
    /\ backupsDir = TRUE
    /\ zip_name = archive_name(CHOOSE now \in Clock : TRUE)
    /\ backups = (os_path_join(backups_dir, <<".gitignore">>) :> Gitignore)
                 @@ (zip_name :> Zip(EmptyBag, TRUE))
    /\ treeDir = TRUE /\ dirs = {} /\ files = <<>> /\ files0 = <<>>
    /\ todo = {} /\ failed = {} /\ archived = TRUE /\ nBlock = 0 /\ nItem = 0

NextFull == IterSteel \/ EmitCall \/ NextPhase

SpecFull == InitFull /\ [][NextFull]_vars

----------------------------------------------------------------------------
(* The files of a complete run over the whole tables                        *)

\* The step is an emission call (the call is then the one in call').
Emits == nBlock' # nBlock \/ nItem' # nItem

\* The run has not written to the path p so far.
Untouched(p) ==
    IF p \in DOMAIN files0 THEN p \in DOMAIN files /\ files[p] = files0[p]
    ELSE p \notin DOMAIN files

FullBlockPath(b, r) == "blockstates/" \o b \o "/" \o r \o ".json"

\* C12: for every rock kind r and every full-block kind b of the tables, a
\* completed run has left at blockstates/<b>/<r>.json a file whose
\* defaults.model is "cube_all" and whose defaults.textures is exactly
\* {"all": "tfc:blocks/stonetypes/<b>/<r>"}; and the run writes that path
\* once: the emission call that opens it finds it untouched by the run.
C12_FullBlocks ==
    /\ [](pc = "done" =>
            \A i \in DOMAIN tables.ROCK_TYPES, j \in DOMAIN tables.FULLBLOCK_TYPES :
                LET r == tables.ROCK_TYPES[i]
                    b == tables.FULLBLOCK_TYPES[j]
                    p == FullBlockPath(b, r)
                IN  /\ p \in DOMAIN files
                    /\ files[p].t = "dict"
                    /\ files[p].d["defaults"].d["model"] = Str("cube_all")
                    /\ files[p].d["defaults"].d["textures"] =
                            Dict("all" :> Str("tfc:blocks/stonetypes/" \o b \o "/" \o r)))
    /\ [][Emits =>
            \A i \in DOMAIN tables.ROCK_TYPES, j \in DOMAIN tables.FULLBLOCK_TYPES :
                LET p == FullBlockPath(tables.FULLBLOCK_TYPES[j], tables.ROCK_TYPES[i])
                IN  call'.p = p => Untouched(p)]_vars

\* A run over every rock kind and every full-block kind has completed: the
\* files of the first and of the last pair are there.
C12_Witness ==
    /\ pc = "done" /\ tables = Tables
    /\ FullBlockPath("raw", "granite") \in DOMAIN files
    /\ FullBlockPath(FULLBLOCK_TYPES[Len(FULLBLOCK_TYPES)], ROCK_TYPES[Len(ROCK_TYPES)])
            \in DOMAIN files
    /\ files[FullBlockPath("clay", "granite")].d["defaults"].d["textures"] =
            Dict("all" :> Str("tfc:blocks/stonetypes/clay/granite"))

MetalItemPath(item_type, metal) ==
    "models/item/metal/" \o item_type \o "/" \o metal \o ".json"

\* C13, of a whole run: for every pair of an item type of METAL_ITEMS and a
\* metal of METAL_TYPES, a completed run has written
\* models/item/metal/<item_type>/<metal>.json if and only if the pair is not
\* a tool-shaped item with a metal that is not tool-capable; the file of a
\* valid pair has the parent "tfc:item/handheld_flipped" for knife and
\* javelin, "item/handheld" for every other member of TOOLS, "item/generated"
\* otherwise; and the run writes the path once: the emission call that opens
\* it finds it untouched by the run.
C13_MetalItemsOfRun ==
    /\ [](pc = "done" =>
            \A i \in DOMAIN tables.METAL_ITEMS, j \in DOMAIN tables.METAL_TYPES :
                LET item_type == tables.METAL_ITEMS[i].k
                    tool_item == tables.METAL_ITEMS[i].v
                    metal == tables.METAL_TYPES[j].k
                    tool_metal == tables.METAL_TYPES[j].v
                    p == MetalItemPath(item_type, metal)
                IN  /\ ~Untouched(p) <=> ~(tool_item /\ ~tool_metal)
                    /\ ~Untouched(p) =>
                        /\ files[p].t = "dict"
                        /\ files[p].d["parent"] =
                            IF item_type \in {"knife", "javelin"}
                            THEN Str("tfc:item/handheld_flipped")
                            ELSE IF \E t \in DOMAIN tables.TOOLS : tables.TOOLS[t] = item_type
                            THEN Str("item/handheld")
                            ELSE Str("item/generated"))
    /\ [][Emits =>
            \A i \in DOMAIN tables.METAL_ITEMS, j \in DOMAIN tables.METAL_TYPES :
                LET p == MetalItemPath(tables.METAL_ITEMS[i].k, tables.METAL_TYPES[j].k)
                IN  call'.p = p => Untouched(p)]_vars

----------------------------------------------------------------------------
(* One iteration of the metal item loops, lines 727-734, for any item type *)
(* of METAL_ITEMS and any metal of METAL_TYPES                             *)

InitMetal ==
    /\ arg = EmptyDict /\ ret = Unset /\ call = Unset
    /\ dirs = {} /\ files = <<>> /\ files0 = <<>>
    /\ pc = "metal_item" /\ calls = <<>>
    /\ tables = Tables /\ steel = Unset
    /\ row \in DOMAIN Tables.METAL_ITEMS /\ idx \in DOMAIN Tables.METAL_TYPES
    /\ backupsDir = FALSE /\ backups = <<>> /\ treeDir = TRUE
    /\ zip_name = Unset /\ todo = {}
    /\ failed = {} /\ archived = FALSE /\ nBlock = 0 /\ nItem = 0

\* Lines 729-730: continue
MetalItemSkipped ==
    /\ pc = "metal_item"
    /\ MetalItem(tables, row, idx) = <<>>
    /\ pc' = "continue"
    /\ UNCHANGED <<pruneVars, emitVars, calls, row, idx, tables, steel, backupsDir, backups,
                   treeDir, zip_name, todo, files0, failed, archived, nBlock, nItem>>

\* Lines 731-734: the item call
MetalItemEmitted ==
    /\ pc = "metal_item"
    /\ MetalItem(tables, row, idx) # <<>>
    /\ LET c == MetalItem(tables, row, idx)[1]
           r == Run(c)
       IN  /\ Emit(r)
           /\ call' = [p |-> r.p] @@ c
    /\ nItem' = nItem + 1
    /\ pc' = "emitted"
    /\ UNCHANGED <<pruneVars, calls, row, idx, tables, steel, backupsDir, backups,
                   treeDir, zip_name, todo, files0, failed, archived, nBlock>>

NextMetal == MetalItemSkipped \/ MetalItemEmitted

SpecMetal == InitMetal /\ [][NextMetal]_vars

\* The paths of all the emission calls of the script over the whole tables,
\* in program order (for one order of STEEL: another order permutes them).
ScriptPaths ==
    LET cs == BlockCalls(Tables) \o ItemCalls(Tables, CHOOSE order \in Orders(STEEL) : TRUE)
    IN  [n \in DOMAIN cs |-> Run(cs[n]).p]

\* The number of emission calls of the script that open the path p.
Writers(p) == Cardinality({n \in DOMAIN ScriptPaths : ScriptPaths[n] = p})

\* C13: for every pair of an item type of METAL_ITEMS and a metal of
\* METAL_TYPES, the iteration of the metal loops for the pair writes
\* models/item/metal/<item_type>/<metal>.json if and only if the pair is not
\* a tool-shaped item with a metal that is not tool-capable; exactly one
\* emission call of the whole script opens the path of a valid pair and none
\* the path of another pair; the file written has the parent
\* "tfc:item/handheld_flipped" for knife and javelin, "item/handheld" for
\* every other member of TOOLS, and "item/generated" otherwise.
C13_MetalItems ==
    pc \in {"continue", "emitted"} =>
        LET item_type == METAL_ITEMS[row].k
            tool_item == METAL_ITEMS[row].v
            metal == METAL_TYPES[idx].k
            tool_metal == METAL_TYPES[idx].v
            valid == ~(tool_item /\ ~tool_metal)
            p == MetalItemPath(item_type, metal)
        IN  /\ p \in DOMAIN files <=> valid
            /\ DOMAIN files \subseteq {p}
            /\ Writers(p) = IF valid THEN 1 ELSE 0
            /\ valid =>
                /\ files[p].t = "dict"
                /\ files[p].d["parent"] =
                    IF item_type \in {"knife", "javelin"}
                    THEN Str("tfc:item/handheld_flipped")
                    ELSE IF \E t \in DOMAIN TOOLS : TOOLS[t] = item_type
                    THEN Str("item/handheld")
                    ELSE Str("item/generated")

\* The iteration for a tool of a tool-capable metal has written its file,
\* held as a tool.
C13_Witness ==
    /\ pc = "emitted"
    /\ METAL_ITEMS[row].k = "pick" /\ METAL_TYPES[idx].k = "copper"
    /\ METAL_ITEMS[row].v /\ METAL_TYPES[idx].v
    /\ files[MetalItemPath("pick", "copper")].d["parent"] = Str("item/handheld")

----------------------------------------------------------------------------
\* C14: within one run over the whole tables, started in an empty tree, no
\* emission call opens a path that an earlier emission call of the run has
\* written, every descriptor written so far is left as it was written, and
\* the number of files written equals the number of emission calls made.
C14_UniquePaths ==
    /\ [](Cardinality(DOMAIN files) = nBlock + nItem)
    /\ [][Emits =>
            /\ call'.p \notin DOMAIN files
            /\ files' = (call'.p :> files'[call'.p]) @@ files]_vars

\* A run over the whole tables has completed: 1544 blockstate calls and 932
\* item calls have written 2476 files.
C14_Witness ==
    /\ pc = "done"
    /\ tables = Tables
    /\ nBlock = 1544 /\ nItem = 932
    /\ Cardinality(DOMAIN files) = 2476

----------------------------------------------------------------------------
\* The value v is not null and holds no null at any depth, the elements of
\* lists and tuples included.
RECURSIVE NoNull(_)
NoNull(v) ==
    /\ v # Null
    /\ v.t = "dict" => \A k \in DOMAIN v.d : NoNull(v.d[k])
    /\ v.t \in {"list", "tuple"} => \A i \in DOMAIN v.l : NoNull(v.l[i])

\* C15: within a run over the whole tables, the descriptor an emission call
\* has just written holds no null at any depth, inside lists included, and
\* has no "model" key in "defaults" when the call is a blockstate call with
\* the model reference None; and every step leaves the descriptors written
\* before as they are, so that no descriptor written so far holds a null.
C15_NoNullInOutput ==
    /\ [](call # Unset =>
            /\ NoNull(files[call.p])
            /\ (call.fn = "blockstate" /\ call.model = Null) =>
                    "model" \notin DOMAIN files[call.p].d["defaults"].d)
    /\ [][files' = files \/ files' = (call'.p :> files'[call'.p]) @@ files]_vars

\* The fence gate of the first wood type has just been written, with its
\* list-wrapped "inventory" entry and its translation list, after the
\* stairs of the first rock type, whose model reference is None, and its
\* button, whose "inventory" entry is a list.
C15_Witness ==
    /\ call # Unset
    /\ call.p = "blockstates/wood/fence_gate/" \o WOOD_TYPES[1] \o ".json"
    /\ files[call.p].d["variants"].d["inventory"] = List(<<EmptyDict>>)
    /\ files[call.p].d["variants"].d["normal"] = List(<<EmptyDict>>)
    /\ files[call.p].d["variants"].d["in_wall"].d["true"].d["transform"].d["translation"]
            = List(<<Num(0), Float("-0.1875"), Num(0)>>)
    /\ LET stairs == files["blockstates/stairs/smooth/" \o ROCK_TYPES[1] \o ".json"]
           button == files["blockstates/stone/button/" \o ROCK_TYPES[1] \o ".json"]
       IN  /\ DOMAIN stairs.d["defaults"].d = {"textures"}
           /\ button.d["variants"].d["inventory"].t = "list"

----------------------------------------------------------------------------
\* The file the first call that is given a shared table writes.
FirstUse(name) ==
    CASE name = "DOOR_VARIANTS" -> "blockstates/wood/door/" \o WOOD_TYPES[1] \o ".json"
      [] name = "TRAPDOOR_VARIANTS" -> "blockstates/wood/trapdoor/" \o WOOD_TYPES[1] \o ".json"
      [] name = "STAIR_VARIANTS" -> "blockstates/stairs/smooth/" \o ROCK_TYPES[1] \o ".json"

\* C16: at every point of a run over the whole tables, DOOR_VARIANTS,
\* TRAPDOOR_VARIANTS and STAIR_VARIANTS are equal to their initial values,
\* the 'normal': None entries of the first two included; a blockstate call
\* leaves the textures mapping it is given as it was; and a call that is
\* given a shared table writes the same "variants" object as the first call
\* that was given the table.
C16_SharedTablesUnchanged ==
    /\ [](/\ \A name \in SharedTables : tables[name] = Tables[name]
          /\ tables.DOOR_VARIANTS.d["normal"] = Null
          /\ tables.TRAPDOOR_VARIANTS.d["normal"] = Null)
    /\ [][(Emits /\ call'.fn = "blockstate") =>
            /\ textures_after(call'.textures) = call'.textures
            /\ \A name \in SharedTables :
                call'.variants = tables[name] =>
                    /\ tables'[name] = tables[name]
                    /\ FirstUse(name) \in DOMAIN files'
                    /\ files'[call'.p].d["variants"]
                            = files'[FirstUse(name)].d["variants"]]_vars

\* The door of the second wood type has just been written from
\* DOOR_VARIANTS, after the door of the first: the table still has its
\* 'normal': None entry and the file has no "normal" variant.
C16_Witness ==
    /\ call # Unset
    /\ call.p = "blockstates/wood/door/" \o WOOD_TYPES[2] \o ".json"
    /\ call.variants = DOOR_VARIANTS
    /\ tables.DOOR_VARIANTS = DOOR_VARIANTS
    /\ DOOR_VARIANTS.d["normal"] = Null
    /\ FirstUse("DOOR_VARIANTS") \in DOMAIN files
    /\ "normal" \notin DOMAIN files[call.p].d["variants"].d
    /\ files[call.p].d["variants"] = files[FirstUse("DOOR_VARIANTS")].d["variants"]

====
